---- MODULE Spec2Model ----
(***************************************************************************)
(* A model of the text-rpg rule engine of src/rpg.py: the world built by   *)
(* load_world_from_data, the action generator get_available_actions and    *)
(* the main loop (explore / combat state machine) of main().               *)
(*                                                                         *)
(* One loop iteration of main() is two steps: Top (the transition check    *)
(* and the menu generation, lines 583-592, up to the blocking input())     *)
(* and one of the Resolve steps (lines 594-820) for the choice read.       *)
(***************************************************************************)
EXTENDS Integers, Sequences, FiniteSets, TLC

\* ------------------------------------------------------------------ bounds
\* player_data["hp"] of the world description the model is run on.
StartHp == 12

\* The longest condition list check_conditions is applied to on its own.
MaxConditions == 3

\* ------------------------------------------------------ program constants
\* fire_damage, main(), line 807
FireDamage == 3

\* ------------------------------------------------------------- world data
\* The world description (game_data.json) is the program's input.  The
\* prototypes below are shared by the world descriptions of WorldData.

\* Item prototypes (all_items), by item id: load_world_from_data 320-332.
ItemData ==
  [ potion_1  |-> [kind |-> "Potion",        name |-> "Potion",  amount |-> 3, effect |-> "none"],
    resist_1  |-> [kind |-> "EffectPotion",  name |-> "Elixir",  amount |-> 2, effect |-> "fire_resistance"],
    bomb_1    |-> [kind |-> "OffensiveItem", name |-> "Bomb",    amount |-> 4, effect |-> "none"],
    chest_1   |-> [kind |-> "Container",     name |-> "Chest",   amount |-> 0, effect |-> "none"],
    box_1     |-> [kind |-> "Container",     name |-> "Box",     amount |-> 0, effect |-> "none"],
    lantern_1 |-> [kind |-> "Item",          name |-> "Lantern", amount |-> 0, effect |-> "none"],
    might_1   |-> [kind |-> "EffectPotion",  name |-> "Tonic",   amount |-> 3, effect |-> "strength"],
    coin_1    |-> [kind |-> "Item",          name |-> "Coin",    amount |-> 0, effect |-> "none"],
    armor_1   |-> [kind |-> "Item",          name |-> "Fireproof Armor", amount |-> 0, effect |-> "none"],
    key_1     |-> [kind |-> "Item",          name |-> "Key",     amount |-> 0, effect |-> "none"] ]

ItemIds == DOMAIN ItemData

ContainerIds == {i \in ItemIds : ItemData[i].kind = "Container"}

\* contained_item_ids of the Container items: load_world_from_data 392-395.
ContainedItemIds ==
  [ chest_1 |-> <<"potion_1", "bomb_1">>,
    box_1   |-> <<>> ]

\* Monster prototypes (all_monsters): load_world_from_data 334-340, 388-390.
MonsterData ==
  [ goblin |-> [hp |-> 7, attack_power |-> 2, drops |-> <<"lantern_1">>, completes_quest_id |-> "q_goblin"],
    wolf   |-> [hp |-> 5, attack_power |-> 3, drops |-> <<>>,            completes_quest_id |-> "none"],
    imp    |-> [hp |-> 4, attack_power |-> 1, drops |-> <<>>,            completes_quest_id |-> "none"],
    drake  |-> [hp |-> 6, attack_power |-> 2, drops |-> <<>>,            completes_quest_id |-> "none"],
    bandit |-> [hp |-> 5, attack_power |-> 1, drops |-> <<"lantern_1", "coin_1">>,
                completes_quest_id |-> "q_bandit"],
    warden |-> [hp |-> 5, attack_power |-> 2, drops |-> <<>>,            completes_quest_id |-> "q_goblin"] ]

\* NPC prototypes (all_npcs): load_world_from_data 342-348.
NpcData ==
  [ elder |-> [gives_items_on_talk |-> <<"resist_1">>] ]

\* The empty dict.
EmptyMap == [e \in {} |-> 0]

\* A location of a world description (loc_data, load_world_from_data
\* 351-427).  exits is the ordered dict direction -> destination, here a
\* sequence of pairs; spawns_on_defeat maps a prototype id to its
\* monster_id_to_spawn.
Loc(location_type, exits, npc_ids, monster_ids, item_ids, conditional_exits, spawns_on_defeat) ==
  [ location_type |-> location_type, exits |-> exits, npc_ids |-> npc_ids,
    monster_ids |-> monster_ids, item_ids |-> item_ids,
    conditional_exits |-> conditional_exits, spawns_on_defeat |-> spawns_on_defeat ]

\* A conditional exit of a location (c_exit_data, lines 418-427) and a clause
\* of its conditions.
ConditionalExit(direction, destination, conditions) ==
  [direction |-> direction, destination |-> destination, conditions |-> conditions]

Clause(type, id) == [type |-> type, id |-> id]

\* The menu templates (game_data["menus"]).  A template is a command verb,
\* the collection it iterates ("none": not iterated), its condition
\* ("none": unconditional) and, for a template that is not iterated, the
\* argument written in its command string ("" when the command is the verb).
\* The command string of an iterated template names the element by its id
\* ("attack {monster.id}", "go {direction}"), so that the action built at
\* lines 282-298 carries the verb and that id.
Template(verb, iterate, condition, arg) ==
  [verb |-> verb, iterate |-> iterate, condition |-> condition, arg |-> arg]

StandardMenus ==
  [ explore |-> << Template("go", "location.exits", "none", ""),
                   Template("use", "player.inventory", "none", "") >>,
    combat  |-> << Template("attack", "location.monsters", "none", ""),
                   Template("use", "player.inventory", "none", ""),
                   Template("retreat", "none", "none", ""),
                   Template("attack", "none", "none", <<"wolf", 0>>) >>,
    always  |-> << Template("look", "none", "none", ""),
                   Template("inventory", "none", "player.inventory", ""),
                   Template("map", "none", "none", ""),
                   Template("get", "location.items", "none", ""),
                   Template("talk", "location.npcs", "none", ""),
                   Template("quit", "none", "none", "") >> ]

\* Menus whose templates name the conditions of lines 253-256 and 276-280.
ConditionMenus ==
  [ explore |-> << Template("go", "location.exits", "none", ""),
                   Template("use", "player.inventory", "is_potion", "") >>,
    combat  |-> << Template("attack", "location.monsters", "none", ""),
                   Template("use", "player.inventory", "is_usable_in_combat", ""),
                   Template("retreat", "none", "none", "") >>,
    always  |-> << Template("look", "none", "none", ""),
                   Template("inventory", "none", "has_usable_item", ""),
                   Template("map", "none", "none", ""),
                   Template("get", "location.items", "none", ""),
                   Template("quit", "none", "none", "") >> ]

\* Menus whose always bucket also holds commands that name a fixed target,
\* whether or not that target is there when the command is chosen.
FixedTargetMenus ==
  [ StandardMenus EXCEPT
      !.always = @ \o << Template("attack", "none", "none", <<"goblin", 0>>),
                         Template("get", "none", "none", "potion_1"),
                         Template("talk", "none", "none", "elder"),
                         Template("use", "none", "none", "bomb_1") >> ]

\* The world descriptions the model is run on: the locations in the order
\* of game_data["locations"], player_data (load_world_from_data 430-438) and
\* the menus (line 579).
WorldData ==
  [ cave_world |->
      [ location_order |-> <<"town", "cave">>,
        locations |->
          [ town |-> Loc("City", << <<"east", "cave">> >>, <<>>, <<>>, <<"box_1">>, <<>>, EmptyMap),
            cave |-> Loc("Dungeon", << <<"west", "town">> >>, <<>>, <<"goblin", "wolf">>,
                         <<>>, <<>>, EmptyMap) ],
        player |-> [ start_location_id |-> "town", attack_power |-> 5,
                     inventory |-> <<"chest_1">>,
                     quests |-> [q_goblin |-> "active"] ],
        menus |-> StandardMenus ],
    volcano_world |->
      [ location_order |-> <<"town", "volcano">>,
        locations |->
          [ town    |-> Loc("City", << <<"north", "volcano">> >>, <<"elder">>, <<"goblin">>,
                            <<>>, <<>>, EmptyMap),
            volcano |-> Loc("Volcanic", << <<"south", "town">> >>, <<>>,
                            <<"goblin", "imp", "goblin">>, <<>>, <<>>,
                            [imp |-> "drake"]) ],
        player |-> [ start_location_id |-> "town", attack_power |-> 5,
                     inventory |-> <<"potion_1">>,
                     quests |-> [q_goblin |-> "active"] ],
        menus |-> StandardMenus ],
    ember_world |->
      [ location_order |-> <<"camp", "crater">>,
        locations |->
          [ camp   |-> Loc("City", << <<"north", "crater">> >>, <<>>, <<>>, <<"armor_1">>, <<>>, EmptyMap),
            crater |-> Loc("Volcanic", << <<"south", "camp">> >>, <<>>, <<"imp", "wolf">>,
                           <<>>, <<>>, EmptyMap) ],
        player |-> [ start_location_id |-> "camp", attack_power |-> 5,
                     inventory |-> <<"resist_1", "might_1">>,
                     quests |-> EmptyMap ],
        menus |-> ConditionMenus ],
    loot_world |->
      [ location_order |-> <<"town", "den">>,
        locations |->
          [ town |-> Loc("City", << <<"east", "den">> >>, <<>>, <<>>, <<"lantern_1">>, <<>>, EmptyMap),
            den  |-> Loc("Dungeon", << <<"west", "town">> >>, <<>>, <<"bandit", "bandit">>,
                         <<>>, <<>>, EmptyMap) ],
        player |-> [ start_location_id |-> "town", attack_power |-> 5,
                     inventory |-> <<>>,
                     quests |-> [q_goblin |-> "active"] ],
        menus |-> FixedTargetMenus ],
    gate_world |->
      [ location_order |-> <<"hall", "yard", "vault", "cellar", "tower", "attic", "loft", "shed">>,
        locations |->
          [ hall   |-> Loc("City", << <<"east", "yard">>, <<"north", "attic">> >>, <<>>, <<>>,
                           <<"key_1">>,
                           << ConditionalExit("east", "vault", << Clause("has_item", "key_1") >>),
                              ConditionalExit("down", "cellar",
                                              << Clause("quest_completed", "q_goblin") >>) >>,
                           EmptyMap),
            yard   |-> Loc("Wilderness", << <<"west", "hall">> >>, <<>>, <<"warden">>, <<>>,
                           << ConditionalExit("up", "tower", <<>>) >>, EmptyMap),
            vault  |-> Loc("Dungeon", << <<"west", "hall">> >>, <<>>, <<>>, <<>>, <<>>, EmptyMap),
            cellar |-> Loc("Dungeon", << <<"up", "hall">> >>, <<>>, <<>>, <<>>, <<>>, EmptyMap),
            tower  |-> Loc("City", << <<"down", "yard">> >>, <<>>, <<>>, <<>>, <<>>, EmptyMap),
            attic  |-> Loc("City", << <<"south", "hall">>, <<"east", "loft">> >>, <<>>, <<>>,
                           <<>>, <<>>, EmptyMap),
            loft   |-> Loc("City", << <<"west", "attic">>, <<"south", "shed">> >>, <<>>, <<>>,
                           <<>>, <<>>, EmptyMap),
            shed   |-> Loc("City", << <<"north", "loft">> >>, <<>>, <<>>, <<>>, <<>>, EmptyMap) ],
        player |-> [ start_location_id |-> "hall", attack_power |-> 5,
                     inventory |-> <<>>,
                     quests |-> [q_goblin |-> "active"] ],
        menus |-> StandardMenus ] ]

WorldIds == DOMAIN WorldData

\* The world description the run is given, by its name in WorldData; it
\* never changes.
VARIABLE world

\* game_data, line 578: the description load_game_data has read, which
\* load_world_from_data builds the world from.
VARIABLE game_data

LocationOrder == game_data.location_order

LocationIds == {LocationOrder[i] : i \in 1..Len(LocationOrder)}

LocationData == game_data.locations

PlayerData == game_data.player

\* menus, line 579.
Menus == game_data.menus

\* ------------------------------------------------------- sequence helpers
RECURSIVE SumSeq(_)
SumSeq(s) == IF s = <<>> THEN 0 ELSE Head(s) + SumSeq(Tail(s))

Range(s) == {s[i] : i \in 1..Len(s)}

\* The index of the first element of s equal to x, 0 when there is none:
\* next((i for i in s if i.id == x), None).
FirstIndex(s, x) ==
  IF \E i \in 1..Len(s) : s[i] = x
  THEN CHOOSE i \in 1..Len(s) : s[i] = x /\ \A j \in 1..(i - 1) : s[j] # x
  ELSE 0

RemoveAt(s, i) == SubSeq(s, 1, i - 1) \o SubSeq(s, i + 1, Len(s))

\* list.remove(x): removes the first occurrence.
RemoveFirst(s, x) == IF FirstIndex(s, x) = 0 THEN s ELSE RemoveAt(s, FirstIndex(s, x))

\* ---------------------------------------------------------------- loading
\* f"{monster_id}:{instance_count}", line 410: the instance id is the pair
\* of the prototype id and the index.
InstanceIdMutant(monster_id, instance_count) == <<monster_id, 0>>

InstanceId(monster_id, instance_count) == <<monster_id, instance_count>>

\* copy.deepcopy(proto_monster) with a new id, lines 406-410.
NewMonster(monster_id, instance_count) ==
  [ id |-> InstanceId(monster_id, instance_count),
    hp |-> MonsterData[monster_id].hp,
    attack_power |-> MonsterData[monster_id].attack_power,
    drops |-> MonsterData[monster_id].drops,
    completes_quest_id |-> MonsterData[monster_id].completes_quest_id ]

\* The inner loop of the linking pass, lines 404-413: the monsters of one
\* location; monster_instance_counter is shared by all locations.
RECURSIVE PlaceMonsters(_, _, _)
PlaceMonsters(monster_ids, counter, placed) ==
  IF monster_ids = <<>>
  THEN [monsters |-> placed, counter |-> counter]
  ELSE LET monster_id == Head(monster_ids)
           instance_count == counter[monster_id]
       IN PlaceMonsters(Tail(monster_ids),
                        [counter EXCEPT ![monster_id] = instance_count + 1],
                        Append(placed, NewMonster(monster_id, instance_count)))

\* The outer loop of the linking pass, lines 398-413, over the locations
\* from the i-th on: location id -> monster list.
RECURSIVE LinkMonsters(_, _, _)
LinkMonsters(i, counter, linked) ==
  IF i > Len(LocationOrder)
  THEN linked
  ELSE LET loc_id == LocationOrder[i]
           r == PlaceMonsters(LocationData[loc_id].monster_ids, counter, <<>>)
       IN LinkMonsters(i + 1, r.counter, [linked EXCEPT ![loc_id] = r.monsters])

LoadedMonsters ==
  LinkMonsters(1, [m \in DOMAIN MonsterData |-> 0], [l \in LocationIds |-> <<>>])

\* isinstance(location, VolcanicLocation), lines 378-382 and 802.
IsVolcanic(loc_id) == LocationData[loc_id].location_type = "Volcanic"

\* location.exits as a mapping: the destination of a direction, "none" when
\* the direction is no key (lines 151-153, 401).
ExitDest(loc_id, direction) ==
  LET ex == LocationData[loc_id].exits
  IN IF \E i \in 1..Len(ex) : ex[i][1] = direction
     THEN ex[CHOOSE i \in 1..Len(ex) : ex[i][1] = direction][2]
     ELSE "none"

\* ------------------------------------------------------------------ state
VARIABLES
  pc,                \* "top": at the while test; "input": blocked in input(); "over": the loop has ended
  game_mode,         \* "explore" or "combat"
  hp,                \* player.hp
  inventory,         \* player.inventory: sequence of item ids
  current_location,  \* player.current_location (its id)
  previous_location, \* player.previous_location (its id)
  status_effects,    \* player.status_effects: effect -> remaining turns
  quests,            \* player.quests: quest id -> state
  discovered_locations,
  monsters,          \* location id -> location.monsters
  items,             \* location id -> location.items (item ids)
  contained_items,   \* container id -> Container.contained_items
  npcs,              \* location id -> location.npcs
  available_actions, \* the menu of the tick
  menus,             \* the menu templates held by main() (line 579)
  last,              \* what the last resolved tick did (history)
  checked            \* the last call of check_conditions on its own: its argument and result

vars == <<world, game_data, pc, game_mode, hp, inventory, current_location, previous_location,
          status_effects, quests, discovered_locations, monsters, items,
          contained_items, npcs, available_actions, menus, last, checked>>

\* copy.deepcopy(all_npcs[npc_id]) for the npc_ids of a location, line 402.
LoadedNpcs ==
  [l \in LocationIds |->
     [i \in 1..Len(LocationData[l].npc_ids) |->
        [id |-> LocationData[l].npc_ids[i],
         gives_items_on_talk |-> NpcData[LocationData[l].npc_ids[i]].gives_items_on_talk]]]

\* The history record of a tick that has not happened.
NoTick ==
  [ mode |-> "none", verb |-> "none", arg |-> "", turn |-> FALSE, target |-> 0,
    hp0 |-> 0, hp1 |-> 0, hp2 |-> 0,
    loc0 |-> "none", prev0 |-> "none", monsters0 |-> <<>>, inventory0 |-> <<>>, contained0 |-> <<>>,
    hits |-> {}, victory |-> FALSE, raised |-> FALSE,
    state0 |-> <<>>, effects1 |-> EmptyMap, sel |-> 0, index |-> 0,
    map |-> [drawn |-> FALSE, graph |-> EmptyMap, coords |-> EmptyMap] ]

\* check_conditions has not been called on its own.
NoCheck == [called |-> FALSE, conditions |-> <<>>, result |-> FALSE]

\* The state after load_world_from_data and lines 578-581.
Init ==
  /\ world \in WorldIds
  /\ game_data = WorldData[world]
  /\ pc = "top"
  /\ game_mode = "explore"
  /\ hp = StartHp
  /\ inventory = PlayerData.inventory
  /\ current_location = PlayerData.start_location_id
  /\ previous_location = PlayerData.start_location_id
  /\ status_effects = EmptyMap
  /\ quests = PlayerData.quests
  /\ discovered_locations = {PlayerData.start_location_id}
  /\ monsters = LoadedMonsters
  /\ items = [l \in LocationIds |-> LocationData[l].item_ids]
  /\ contained_items = ContainedItemIds
  /\ npcs = LoadedNpcs
  /\ available_actions = <<>>
  /\ menus = Menus
  /\ last = NoTick
  /\ checked = NoCheck


\* ------------------------------------------------------ condition evaluator
\* Player.check_conditions, lines 174-185, on the player state given.
CheckConditionsMutant(conditions, inv, qs) ==
  \A k \in 1..Len(conditions) :
    conditions[k].type = "has_item" => \E i \in 1..Len(inv) : inv[i] = conditions[k].id

RECURSIVE CheckConditions(_, _, _)
CheckConditions(conditions, inv, qs) ==
  IF conditions = <<>>
  THEN TRUE
  ELSE LET condition == Head(conditions)
       IN IF condition.type = "has_item"
          THEN IF ~(\E i \in 1..Len(inv) : inv[i] = condition.id)
               THEN FALSE
               ELSE CheckConditions(Tail(conditions), inv, qs)
          ELSE IF condition.type = "quest_completed"
          THEN IF (IF condition.id \in DOMAIN qs THEN qs[condition.id] ELSE "none") # "completed"
               THEN FALSE
               ELSE CheckConditions(Tail(conditions), inv, qs)
          ELSE CheckConditions(Tail(conditions), inv, qs)

\* Player.check_conditions called on its own: the clauses, the inventories
\* and the quest logs it is given.
ClauseChoices ==
  { [type |-> "has_item", id |-> "potion_1"],
    [type |-> "has_item", id |-> "lantern_1"],
    [type |-> "quest_completed", id |-> "q_goblin"],
    [type |-> "quest_completed", id |-> "q_missing"],
    [type |-> "min_level", id |-> "potion_1"] }

ConditionLists == UNION {[1..n -> ClauseChoices] : n \in 0..MaxConditions}

InventoryChoices == { <<>>, <<"potion_1">>, <<"lantern_1">>, <<"chest_1", "lantern_1", "potion_1">> }

QuestChoices == { EmptyMap, [q_goblin |-> "active"], [q_goblin |-> "completed"] }

\* A player with some inventory and some quest log (lines 141-147 and 436-437).
InitConditions ==
  /\ world = "cave_world"
  /\ game_data = WorldData[world]
  /\ pc = "top"
  /\ game_mode = "explore"
  /\ hp = StartHp
  /\ inventory \in InventoryChoices
  /\ current_location = PlayerData.start_location_id
  /\ previous_location = PlayerData.start_location_id
  /\ status_effects = EmptyMap
  /\ quests \in QuestChoices
  /\ discovered_locations = {PlayerData.start_location_id}
  /\ monsters = LoadedMonsters
  /\ items = [l \in LocationIds |-> LocationData[l].item_ids]
  /\ contained_items = ContainedItemIds
  /\ npcs = LoadedNpcs
  /\ available_actions = <<>>
  /\ menus = Menus
  /\ last = NoTick
  /\ checked = NoCheck

\* player.check_conditions(conditions), lines 174-185, for some list.
CheckConditionsCall ==
  /\ \E conditions \in ConditionLists :
        checked' = [called |-> TRUE, conditions |-> conditions,
                    result |-> CheckConditions(conditions, inventory, quests)]
  /\ UNCHANGED <<world, game_data, pc, game_mode, hp, inventory, current_location, previous_location,
                 status_effects, quests, discovered_locations, monsters, items,
                 contained_items, npcs, available_actions, menus, last>>

NextConditions == CheckConditionsCall

SpecConditions == InitConditions /\ [][NextConditions]_vars

\* ---------------------------------------------------------- action generator
IsUsable(item_id) == ItemData[item_id].kind \in {"Potion", "OffensiveItem", "EffectPotion"}

\* The source list of an iterated template, lines 261-272, as the sequence
\* of [arg: what the command names, kind: the element's class].
SourceList(iterator_key, loc, inv, mons, its, ns) ==
  IF iterator_key = "location.exits"
  THEN [i \in 1..Len(LocationData[loc].exits) |->
          [arg |-> LocationData[loc].exits[i][1], kind |-> "exit"]]
  ELSE IF iterator_key = "location.npcs"
  THEN [i \in 1..Len(ns) |-> [arg |-> ns[i].id, kind |-> "NPC"]]
  ELSE IF iterator_key = "location.items"
  THEN [i \in 1..Len(its) |-> [arg |-> its[i], kind |-> ItemData[its[i]].kind]]
  ELSE IF iterator_key = "player.inventory"
  THEN [i \in 1..Len(inv) |-> [arg |-> inv[i], kind |-> ItemData[inv[i]].kind]]
  ELSE IF iterator_key = "location.monsters"
  THEN [i \in 1..Len(mons) |-> [arg |-> mons[i].id, kind |-> "Monster"]]
  ELSE <<>>

\* The per-element condition of an iterated template, lines 276-280.
PassesElementCondition(condition, kind) ==
  /\ ~(condition = "is_potion" /\ kind \notin {"Potion", "EffectPotion"})
  /\ ~(condition = "is_usable_in_combat" /\ kind \notin {"Potion", "OffensiveItem", "EffectPotion"})

Action(verb, arg) == [verb |-> verb, arg |-> arg]

\* The actions one template expands to, lines 245-300.
ExpandTemplateMutant(definition, loc, inv, mons, its, ns) ==
  IF definition.iterate = "none"
  THEN << Action(definition.verb, definition.arg) >>
  ELSE LET source_list == SourceList(definition.iterate, loc, inv, mons, its, ns)
       IN [i \in 1..Len(source_list) |-> Action(definition.verb, source_list[i].arg)]

ExpandTemplate(definition, loc, inv, mons, its, ns) ==
  IF definition.iterate = "none"
  THEN IF definition.condition = "none"
       THEN << Action(definition.verb, definition.arg) >>
       ELSE IF definition.condition = "player.inventory" /\ inv = <<>>
       THEN <<>>
       ELSE IF definition.condition = "has_usable_item" /\ ~(\E i \in 1..Len(inv) : IsUsable(inv[i]))
       THEN <<>>
       ELSE << Action(definition.verb, definition.arg) >>
  ELSE LET source_list == SourceList(definition.iterate, loc, inv, mons, its, ns)
           passing == SelectSeq(source_list,
                                LAMBDA it : PassesElementCondition(definition.condition, it.kind))
       IN [i \in 1..Len(passing) |-> Action(definition.verb, passing[i].arg)]

RECURSIVE ExpandAll(_, _, _, _, _, _)
ExpandAll(menu_definitions, loc, inv, mons, its, ns) ==
  IF menu_definitions = <<>>
  THEN <<>>
  ELSE ExpandTemplate(Head(menu_definitions), loc, inv, mons, its, ns)
       \o ExpandAll(Tail(menu_definitions), loc, inv, mons, its, ns)

\* The synthetic go actions of the conditional exits, lines 302-309.
ConditionalExitActions(loc, inv, qs) ==
  LET open == SelectSeq(LocationData[loc].conditional_exits,
                        LAMBDA c_exit : CheckConditions(c_exit.conditions, inv, qs))
  IN [i \in 1..Len(open) |-> Action("go", open[i].direction)]

\* get_available_actions(player, game_mode, menus), lines 239-311.
GetAvailableActions(mode) ==
  ExpandAll(menus[mode] \o menus.always, current_location, inventory,
            monsters[current_location], items[current_location], npcs[current_location])
  \o ConditionalExitActions(current_location, inventory, quests)

\* A template after it has been expanded: every action is built on
\* definition.copy() (lines 247, 257 and 282), and the text and command of
\* lines 283-298 are written to that copy, so the template is as it was.
TemplateAfterExpansionMutant(definition, expanded) ==
  IF definition.iterate # "none" /\ expanded # <<>>
  THEN [definition EXCEPT !.arg = expanded[Len(expanded)].arg]
  ELSE definition

TemplateAfterExpansion(definition, expanded) == definition

\* The menu templates after get_available_actions(player, mode, menus).
MenusAfterCall(mode) ==
  [bucket \in DOMAIN menus |->
     IF bucket \in {mode, "always"}
     THEN [k \in 1..Len(menus[bucket]) |->
             TemplateAfterExpansion(
               menus[bucket][k],
               ExpandTemplate(menus[bucket][k], current_location, inventory,
                              monsters[current_location], items[current_location],
                              npcs[current_location]))]
     ELSE menus[bucket]]

\* ------------------------------------------------------- player operations
\* The player and world state as one value, for the operators below.
State ==
  [ game_mode |-> game_mode, hp |-> hp, inventory |-> inventory,
    current_location |-> current_location, previous_location |-> previous_location,
    status_effects |-> status_effects, quests |-> quests,
    discovered_locations |-> discovered_locations, monsters |-> monsters,
    items |-> items, contained_items |-> contained_items, npcs |-> npcs ]

\* The destination Player.move(direction) moves to, "none" when it does not
\* move: a static exit first, else the first conditional exit of that
\* direction whose conditions hold (lines 150-163).
MoveDest(st, direction) ==
  LET loc == st.current_location
      c_exits == SelectSeq(LocationData[loc].conditional_exits,
                           LAMBDA c_exit : /\ c_exit.direction = direction
                                           /\ CheckConditions(c_exit.conditions, st.inventory, st.quests))
  IN IF ExitDest(loc, direction) # "none"
     THEN ExitDest(loc, direction)
     ELSE IF c_exits # <<>> THEN c_exits[1].destination ELSE "none"

\* Player.move, lines 149-169.
MoveMutant(st, direction) ==
  LET dest == MoveDest(st, direction)
  IN IF dest = "none"
     THEN st
     ELSE [st EXCEPT !.previous_location = st.current_location,
                     !.current_location = dest,
                     !.discovered_locations = {dest}]

Move(st, direction) ==
  LET dest == MoveDest(st, direction)
  IN IF dest = "none"
     THEN st
     ELSE [st EXCEPT !.previous_location = st.current_location,
                     !.current_location = dest,
                     !.discovered_locations = @ \cup {dest}]

\* Player.retreat, lines 171-172.
Retreat(st) == [st EXCEPT !.current_location = st.previous_location]

\* ---------------------------------------------------------------- the map
\* exits[c_exit.direction] = c_exit.destination on the ordered dict exits
\* (a sequence of pairs), line 471: the value of a key that is there is
\* replaced in place, a new key is appended.
SetExit(exits, direction, destination) ==
  IF \E i \in 1..Len(exits) : exits[i][1] = direction
  THEN [i \in 1..Len(exits) |->
          IF exits[i][1] = direction THEN <<direction, destination>> ELSE exits[i]]
  ELSE Append(exits, <<direction, destination>>)

\* The loop of lines 469-471 over the conditional exits of a location.
RECURSIVE AddConditionalExits(_, _, _, _)
AddConditionalExits(exits, c_exits, inv, qs) ==
  IF c_exits = <<>>
  THEN exits
  ELSE LET c_exit == Head(c_exits)
       IN AddConditionalExits(
            IF CheckConditions(c_exit.conditions, inv, qs)
            THEN SetExit(exits, c_exit.direction, c_exit.destination)
            ELSE exits,
            Tail(c_exits), inv, qs)

\* The exits the map follows from a location, lines 468-471.
MapExits(loc, inv, qs) ==
  AddConditionalExits(LocationData[loc].exits, LocationData[loc].conditional_exits, inv, qs)

\* The loop of lines 473-477 over the exits of the location taken from the
\* queue: the queue and the visited set after it.
RECURSIVE VisitExits(_, _, _)
VisitExits(exits, q, visited) ==
  IF exits = <<>>
  THEN [q |-> q, visited |-> visited]
  ELSE LET dest == Head(exits)[2]
       IN IF dest \notin visited
          THEN VisitExits(Tail(exits), Append(q, dest), visited \cup {dest})
          ELSE VisitExits(Tail(exits), q, visited)

\* The while loop of lines 463-477: accessible_graph as the mapping
\* location id -> exits of that location (pairs direction, destination id).
RECURSIVE BuildGraph(_, _, _, _, _)
BuildGraph(q, visited, graph, inv, qs) ==
  IF q = <<>>
  THEN graph
  ELSE LET current_id == Head(q)
           exits == MapExits(current_id, inv, qs)
           v == VisitExits(exits, Tail(q), visited)
       IN BuildGraph(v.q, v.visited,
                     [l \in DOMAIN graph \cup {current_id} |->
                        IF l = current_id THEN exits ELSE graph[l]],
                     inv, qs)

\* AsciiMap._build_accessible_graph, lines 458-477.
BuildAccessibleGraph(start_id, inv, qs) ==
  BuildGraph(<<start_id>>, {start_id}, EmptyMap, inv, qs)

\* while (nx, ny) in self.coords.values(): nx += 1, lines 504-505.  The
\* loop ends: coords holds finitely many cells.
FreeCellMutant(nx, ny, coords) == <<nx, ny>>

RECURSIVE FreeCell(_, _, _)
FreeCell(nx, ny, coords) ==
  IF \E l \in DOMAIN coords : coords[l] = <<nx, ny>>
  THEN FreeCell(nx + 1, ny, coords)
  ELSE <<nx, ny>>

\* dx, dy of a direction, lines 495-500; <<>> for the else: continue.
Delta(direction) ==
  IF direction = "north" THEN <<0, -1>>
  ELSE IF direction = "south" THEN <<0, 1>>
  ELSE IF direction = "east" THEN <<1, 0>>
  ELSE IF direction = "west" THEN <<-1, 0>>
  ELSE <<>>

\* The loop of lines 491-507 over the exits of the location taken from the
\* queue: the queue and the coordinates after it.
RECURSIVE PlaceNeighbors(_, _, _, _)
PlaceNeighbors(exits, c, q, coords) ==
  IF exits = <<>>
  THEN [q |-> q, coords |-> coords]
  ELSE LET direction == Head(exits)[1]
           neighbor_id == Head(exits)[2]
       IN IF neighbor_id \in DOMAIN coords \/ Delta(direction) = <<>>
          THEN PlaceNeighbors(Tail(exits), c, q, coords)
          ELSE LET cell == FreeCell(c[1] + Delta(direction)[1], c[2] + Delta(direction)[2], coords)
               IN PlaceNeighbors(Tail(exits), c, Append(q, neighbor_id),
                                 [l \in DOMAIN coords \cup {neighbor_id} |->
                                    IF l = neighbor_id THEN cell ELSE coords[l]])

\* The while loop of lines 485-507.
RECURSIVE PlaceAll(_, _, _)
PlaceAll(q, coords, graph) ==
  IF q = <<>>
  THEN coords
  ELSE LET current_id == Head(q)
           exits == IF current_id \in DOMAIN graph THEN graph[current_id] ELSE <<>>
           p == PlaceNeighbors(exits, coords[current_id], Tail(q), coords)
       IN PlaceAll(p.q, p.coords, graph)

\* AsciiMap._assign_coordinates, lines 480-507.
AssignCoordinates(start_id, graph) ==
  PlaceAll(<<start_id>>, [l \in {start_id} |-> <<0, 0>>], graph)

\* What AsciiMap.generate builds before it draws, lines 533-534: the
\* accessible graph and the coordinates, for the player of the state given.
GenerateMap(st) ==
  LET graph == BuildAccessibleGraph(st.current_location, st.inventory, st.quests)
  IN [ drawn |-> TRUE, graph |-> graph,
       coords |-> AssignCoordinates(st.current_location, graph) ]

\* No map has been generated in the tick.
NoMap == [drawn |-> FALSE, graph |-> EmptyMap, coords |-> EmptyMap]

\* The get branch, lines 630-638.
Get(st, item_id) ==
  LET loc == st.current_location
  IN IF FirstIndex(st.items[loc], item_id) # 0
     THEN [st EXCEPT !.inventory = Append(@, item_id),
                     !.items[loc] = RemoveFirst(@, item_id)]
     ELSE st

\* The item-giving loop of the talk branch, lines 648-653.
RECURSIVE GiveItems(_, _)
GiveItems(item_ids, inv) ==
  IF item_ids = <<>>
  THEN inv
  ELSE LET item_id_to_give == Head(item_ids)
       IN IF /\ ~(\E i \in 1..Len(inv) : inv[i] = item_id_to_give)
             /\ item_id_to_give \in ItemIds
          THEN GiveItems(Tail(item_ids), Append(inv, item_id_to_give))
          ELSE GiveItems(Tail(item_ids), inv)

\* The talk branch, lines 641-674 (the dialogue changes no state).
TalkMutant(st, npc_id) ==
  LET loc == st.current_location
      ns == st.npcs[loc]
      k == IF \E i \in 1..Len(ns) : ns[i].id = npc_id
           THEN CHOOSE i \in 1..Len(ns) : ns[i].id = npc_id /\ \A j \in 1..(i - 1) : ns[j].id # npc_id
           ELSE 0
  IN IF k # 0 /\ ns[k].gives_items_on_talk # <<>>
     THEN [st EXCEPT !.inventory = GiveItems(ns[k].gives_items_on_talk, @)]
     ELSE st

Talk(st, npc_id) ==
  LET loc == st.current_location
      ns == st.npcs[loc]
      k == IF \E i \in 1..Len(ns) : ns[i].id = npc_id
           THEN CHOOSE i \in 1..Len(ns) : ns[i].id = npc_id /\ \A j \in 1..(i - 1) : ns[j].id # npc_id
           ELSE 0
  IN IF k # 0 /\ ns[k].gives_items_on_talk # <<>>
     THEN [st EXCEPT !.inventory = GiveItems(ns[k].gives_items_on_talk, @),
                     !.npcs[loc][k].gives_items_on_talk = <<>>]
     ELSE st

\* Potion.use(target) on the player, lines 41-43.
PotionUse(st, item_id) == [st EXCEPT !.hp = @ + ItemData[item_id].amount]

\* EffectPotion.use(target), lines 51-54.
EffectPotionUse(st, item_id) ==
  LET effect == ItemData[item_id].effect
  IN [st EXCEPT !.status_effects =
        [e \in DOMAIN @ \cup {effect} |-> IF e = effect THEN ItemData[item_id].amount ELSE @[e]]]

\* OffensiveItem.use(target) with the player as target, lines 61-63.
OffensiveItemUseOnPlayer(st, item_id) == [st EXCEPT !.hp = @ - ItemData[item_id].amount]

\* OffensiveItem.use(target) with the k-th monster of loc as target.
OffensiveItemUseOnMonster(st, item_id, loc, k) ==
  [st EXCEPT !.monsters[loc][k].hp = @ - ItemData[item_id].amount]

\* Container.use(target_player), lines 70-80.
ContainerUse(st, item_id) ==
  IF st.contained_items[item_id] = <<>>
  THEN st
  ELSE [st EXCEPT !.inventory = @ \o st.contained_items[item_id],
                  !.contained_items[item_id] = <<>>]

\* item.use(player) by the class of the item (Item.use, line 33, changes
\* nothing).
ItemUseOnPlayer(st, item_id) ==
  LET kind == ItemData[item_id].kind
  IN IF kind = "Potion" THEN PotionUse(st, item_id)
     ELSE IF kind = "EffectPotion" THEN EffectPotionUse(st, item_id)
     ELSE IF kind = "OffensiveItem" THEN OffensiveItemUseOnPlayer(st, item_id)
     ELSE IF kind = "Container" THEN ContainerUse(st, item_id)
     ELSE st

\* The classes the explore-mode use branch removes from the inventory after
\* use, line 681.
ExploreConsumedKinds == {"Potion", "Container", "EffectPotion"}

\* The use branch of explore mode, lines 676-684.
ExploreUseMutant(st, item_id) ==
  LET used == ItemUseOnPlayer(st, item_id)
  IN IF ItemData[item_id].kind \in ExploreConsumedKinds
     THEN [used EXCEPT !.inventory = RemoveFirst(@, item_id)]
     ELSE used

ExploreUse(st, item_id) ==
  IF FirstIndex(st.inventory, item_id) # 0
  THEN LET used == ItemUseOnPlayer(st, item_id)
       IN IF ItemData[item_id].kind \in ExploreConsumedKinds
          THEN [used EXCEPT !.inventory = RemoveFirst(@, item_id)]
          ELSE used
  ELSE st

\* The explore-mode dispatch, lines 616-684.  No other verb changes state.
ExploreAction(st, verb, arg) ==
  IF verb = "go" THEN Move(st, arg)
  ELSE IF verb = "get" THEN Get(st, arg)
  ELSE IF verb = "talk" THEN Talk(st, arg)
  ELSE IF verb = "use" THEN ExploreUse(st, arg)
  ELSE st

\* player_turn_taken of an explore tick, lines 617-623.
ExploreTurnTakenMutant(verb) == TRUE

ExploreTurnTaken(verb) == verb # "map"

\* ------------------------------------------------------------------ combat
\* The index in the monster list of the first monster with the id, 0 when
\* there is none: next((m for m in active_monsters if m.id == monster_id), None).
MonsterIndex(mons, monster_id) ==
  IF \E i \in 1..Len(mons) : mons[i].id = monster_id
  THEN CHOOSE i \in 1..Len(mons) : mons[i].id = monster_id /\ \A j \in 1..(i - 1) : mons[j].id # monster_id
  ELSE 0

\* Character.is_alive, lines 10-11.
IsAlive(character_hp) == character_hp > 0

\* player.attack_power of the Player built at lines 433-435.
AttackPower == PlayerData.attack_power

\* The result of the player's part of a combat tick: the state, whether
\* player_turn_taken was set and the index of the monster that was hit.
Outcome(st, turn, target) == [st |-> st, turn |-> turn, target |-> target]

\* The attack branch, lines 690-698.
AttackMutant(st, monster_id) ==
  LET loc == st.current_location
      k == MonsterIndex(st.monsters[loc], monster_id)
  IN IF k # 0
     THEN Outcome([st EXCEPT !.monsters[loc][k].hp = @ - AttackPower], TRUE, k)
     ELSE Outcome(st, TRUE, 0)

AttackMissesMutant(st, monster_id) == Outcome(st, FALSE, 0)

Attack(st, monster_id) ==
  LET loc == st.current_location
      k == MonsterIndex(st.monsters[loc], monster_id)
  IN IF k # 0
     THEN Outcome([st EXCEPT !.monsters[loc][k].hp = @ - AttackPower], TRUE, k)
     ELSE Outcome(st, FALSE, 0)

\* The use branch of combat, lines 700-720; sel is what select_from_menu
\* returns: the index of the monster chosen, 0 for Cancel.
CombatUseMutant(st, item_id, sel) ==
  LET loc == st.current_location
      kind == ItemData[item_id].kind
  IN IF FirstIndex(st.inventory, item_id) = 0
     THEN Outcome(st, FALSE, 0)
     ELSE IF kind = "OffensiveItem" /\ sel # 0
     THEN Outcome([OffensiveItemUseOnMonster(st, item_id, loc, sel)
                     EXCEPT !.inventory = RemoveFirst(@, item_id)], TRUE, sel)
     ELSE IF kind \in {"Potion", "EffectPotion"}
     THEN Outcome([ItemUseOnPlayer(st, item_id) EXCEPT !.inventory = RemoveFirst(@, item_id)],
                  TRUE, 0)
     ELSE Outcome(st, TRUE, 0)

CombatUse(st, item_id, sel) ==
  LET loc == st.current_location
      kind == ItemData[item_id].kind
  IN IF FirstIndex(st.inventory, item_id) = 0
     THEN Outcome(st, FALSE, 0)
     ELSE IF kind = "OffensiveItem"
     THEN IF sel # 0
          THEN Outcome([OffensiveItemUseOnMonster(st, item_id, loc, sel)
                          EXCEPT !.inventory = RemoveFirst(@, item_id)], TRUE, sel)
          ELSE Outcome(st, FALSE, 0)
     ELSE IF kind \in {"Potion", "EffectPotion"}
     THEN Outcome([ItemUseOnPlayer(st, item_id) EXCEPT !.inventory = RemoveFirst(@, item_id)],
                  TRUE, 0)
     ELSE Outcome(st, FALSE, 0)

\* The damage of the parting blows, lines 726-731: hits is the set of the
\* indices of the monsters whose random.random() < 0.5.
RECURSIVE HitDamage(_, _, _)
HitDamage(mons, hits, i) ==
  IF i > Len(mons)
  THEN 0
  ELSE (IF i \in hits THEN mons[i].attack_power ELSE 0) + HitDamage(mons, hits, i + 1)

\* The retreat branch, lines 722-742.
CombatRetreatMutant(st, hits) ==
  LET struck == [st EXCEPT !.hp = @ - HitDamage(st.monsters[st.current_location], hits, 1)]
  IN Outcome([Retreat(struck) EXCEPT !.game_mode = "explore"], TRUE, 0)

CombatRetreat(st, hits) ==
  LET struck == [st EXCEPT !.hp = @ - HitDamage(st.monsters[st.current_location], hits, 1)]
      moved == IF IsAlive(struck.hp) THEN Retreat(struck) ELSE struck
  IN Outcome([moved EXCEPT !.game_mode = "explore"], TRUE, 0)

\* The combat-mode dispatch, lines 690-742.
CombatActionMutant(st, verb, arg, sel, hits) ==
  IF verb = "attack" THEN Attack(st, arg)
  ELSE IF verb = "use" THEN CombatUse(st, arg, sel)
  ELSE IF verb = "retreat" THEN CombatRetreat(st, hits)
  ELSE Outcome(ExploreAction(st, verb, arg), FALSE, 0)

CombatAction(st, verb, arg, sel, hits) ==
  IF verb = "attack" THEN Attack(st, arg)
  ELSE IF verb = "use" THEN CombatUse(st, arg, sel)
  ELSE IF verb = "retreat" THEN CombatRetreat(st, hits)
  ELSE Outcome(st, FALSE, 0)

\* unique_item_ids, line 748.
UniqueItemIds == {"lantern_1", "amulet_of_seeing_1"}

\* The loot loop of one defeated monster, lines 761-768: the ground items
\* of the player's location after the drops.
DropItemsMutant(drops, inv, ground) == ground \o drops

RECURSIVE DropItems(_, _, _)
DropItems(drops, inv, ground) ==
  IF drops = <<>>
  THEN ground
  ELSE LET item == Head(drops)
           is_unique == item \in UniqueItemIds
           has_in_inventory == \E i \in 1..Len(inv) : inv[i] = item
           on_ground_here == \E i \in 1..Len(ground) : ground[i] = item
       IN IF is_unique /\ (has_in_inventory \/ on_ground_here)
          THEN DropItems(Tail(drops), inv, ground)
          ELSE DropItems(Tail(drops), inv, Append(ground, item))

\* m.id.split(':')[0], line 773.
PrototypeId(m) == m.id[1]

\* The quest completion of one defeated monster, lines 753-756.
CompleteQuestMutant(qs, m) ==
  IF m.completes_quest_id # "none"
  THEN [q \in DOMAIN qs \cup {m.completes_quest_id} |->
          IF q = m.completes_quest_id THEN "completed" ELSE qs[q]]
  ELSE qs

CompleteQuest(qs, m) ==
  IF /\ m.completes_quest_id # "none"
     /\ m.completes_quest_id \in DOMAIN qs
     /\ qs[m.completes_quest_id] # "completed"
  THEN [qs EXCEPT ![m.completes_quest_id] = "completed"]
  ELSE qs

\* The loop over the defeated monsters, lines 749-786.  A defeated monster
\* whose prototype id is a key of spawns_on_defeat reaches line 778, which
\* reads all_monsters: main() has no such name (load_world_from_data does
\* not return it, line 440, and line 579 does not bind it), so the line
\* raises NameError and main() ends there: raised is TRUE and the rest of
\* the tick is not run.
RECURSIVE DefeatAll(_, _)
DefeatAll(defeated_monsters, st) ==
  IF defeated_monsters = <<>>
  THEN [st |-> st, raised |-> FALSE]
  ELSE LET m == Head(defeated_monsters)
           loc == st.current_location
           looted == [st EXCEPT !.quests = CompleteQuest(@, m),
                                !.items[loc] = DropItems(m.drops, st.inventory, @)]
       IN IF PrototypeId(m) \in DOMAIN LocationData[loc].spawns_on_defeat
          THEN [st |-> looted, raised |-> TRUE]
          ELSE DefeatAll(Tail(defeated_monsters), looted)

\* The enemy turn, lines 795-799.
RECURSIVE EnemyTurnDamage(_)
EnemyTurnDamage(mons) ==
  IF mons = <<>> THEN 0 ELSE Head(mons).attack_power + EnemyTurnDamage(Tail(mons))

\* Post-action resolution, lines 745-799, of a tick that took a turn:
\* fight_loc is the location whose monster list active_monsters is.
PostActionResolution(st, fight_loc) ==
  LET active_monsters == st.monsters[fight_loc]
      defeated_monsters == SelectSeq(active_monsters, LAMBDA m : ~IsAlive(m.hp))
      d == DefeatAll(defeated_monsters, st)
      cleared == IF defeated_monsters # <<>>
                 THEN [d.st EXCEPT !.monsters[d.st.current_location] =
                                      SelectSeq(active_monsters, LAMBDA m : IsAlive(m.hp))]
                 ELSE st
      remaining == cleared.monsters[cleared.current_location]
  IN IF d.raised
     THEN [st |-> d.st, raised |-> TRUE, victory |-> FALSE]
     ELSE IF remaining = <<>>
     THEN [st |-> [cleared EXCEPT !.game_mode = "explore"], raised |-> FALSE, victory |-> TRUE]
     ELSE IF cleared.game_mode = "combat"
     THEN [st |-> [cleared EXCEPT !.hp = @ - EnemyTurnDamage(remaining)],
           raised |-> FALSE, victory |-> FALSE]
     ELSE [st |-> cleared, raised |-> FALSE, victory |-> FALSE]

\* The volcanic burn, lines 802-809.
Burn(st) ==
  LET has_fire_armor == \E i \in 1..Len(st.inventory) :
                           ItemData[st.inventory[i]].name = "Fireproof Armor"
      has_fire_resistance == "fire_resistance" \in DOMAIN st.status_effects
  IN IF IsVolcanic(st.current_location) /\ ~has_fire_armor /\ ~has_fire_resistance
     THEN [st EXCEPT !.hp = @ - FireDamage]
     ELSE st

\* The cooldown of the status effects, lines 811-819.
Cooldown(st) ==
  LET lowered == [e \in DOMAIN st.status_effects |-> st.status_effects[e] - 1]
      kept == {e \in DOMAIN lowered : ~(lowered[e] <= 0)}
  IN [st EXCEPT !.status_effects = [e \in kept |-> lowered[e]]]

\* Environmental resolution, lines 801-820.
EnvironmentalResolutionMutant(st, turn) ==
  IF IsAlive(st.hp) THEN Cooldown(Burn(st)) ELSE st

EnvironmentalResolutionOfTheDead(st, turn) ==
  IF turn THEN Cooldown(Burn(st)) ELSE st

EnvironmentalResolution(st, turn) ==
  IF turn /\ IsAlive(st.hp) THEN Cooldown(Burn(st)) ELSE st

\* ------------------------------------------------------------ the main loop
\* The state transition check, lines 585-586.
TransitionCheckMutant(mode, mons) == mode

TransitionCheck(mode, mons) ==
  IF mode = "explore" /\ mons # <<>> THEN "combat" ELSE mode

\* Lines 583-592: the while test, the transition check and the menu.
Top ==
  /\ pc = "top"
  /\ IF hp > 0
     THEN LET mode == TransitionCheck(game_mode, monsters[current_location])
          IN /\ game_mode' = mode
             /\ available_actions' = GetAvailableActions(mode)
             /\ menus' = MenusAfterCall(mode)
             /\ pc' = "input"
     ELSE /\ pc' = "over"
          /\ UNCHANGED <<game_mode, available_actions, menus>>
  /\ UNCHANGED <<world, game_data, hp, inventory, current_location, previous_location, status_effects,
                 quests, discovered_locations, monsters, items, contained_items,
                 npcs, last, checked>>

\* Lines 594-603: a choice that is no number or no index of the menu.
InvalidChoice ==
  /\ pc = "input"
  /\ pc' = "top"
  /\ last' = [NoTick EXCEPT !.verb = "invalid"]
  /\ UNCHANGED <<world, game_data, game_mode, hp, inventory, current_location, previous_location,
                 status_effects, quests, discovered_locations, monsters, items,
                 contained_items, npcs, available_actions, menus, checked>>

\* The player and world variables become those of st.
Install(st) ==
  /\ game_mode' = st.game_mode
  /\ hp' = st.hp
  /\ inventory' = st.inventory
  /\ current_location' = st.current_location
  /\ previous_location' = st.previous_location
  /\ status_effects' = st.status_effects
  /\ quests' = st.quests
  /\ discovered_locations' = st.discovered_locations
  /\ monsters' = st.monsters
  /\ items' = st.items
  /\ contained_items' = st.contained_items
  /\ npcs' = st.npcs

\* What the history records of the state a tick starts in; state0 is that
\* whole state, effects1 the status effects after the player's action, index
\* the number chosen in the menu.
TickStart(verb, arg) ==
  [NoTick EXCEPT !.mode = game_mode, !.verb = verb, !.arg = arg,
                 !.hp0 = hp, !.hp1 = hp, !.hp2 = hp,
                 !.loc0 = current_location,
                 !.prev0 = previous_location,
                 !.monsters0 = monsters[current_location],
                 !.inventory0 = inventory,
                 !.contained0 = contained_items,
                 !.state0 = State,
                 !.effects1 = status_effects]

\* Lines 611-613: quit ends the loop.
Quit ==
  /\ pc = "input"
  /\ \E i \in 1..Len(available_actions) : available_actions[i].verb = "quit"
  /\ pc' = "over"
  /\ last' = TickStart("quit", "")
  /\ UNCHANGED <<world, game_data, game_mode, hp, inventory, current_location, previous_location,
                 status_effects, quests, discovered_locations, monsters, items,
                 contained_items, npcs, available_actions, menus, checked>>

\* Lines 616-684: one tick of explore mode for the i-th action of the menu.
\* Post-action and environmental resolution belong to the combat branch
\* (lines 745 and 801 are inside the elif of line 687) and are not run.
ExploreTick(i) ==
  LET verb == available_actions[i].verb
      arg == available_actions[i].arg
      st == ExploreAction(State, verb, arg)
  IN /\ pc = "input"
     /\ game_mode = "explore"
     /\ Install(st)
     /\ last' = [TickStart(verb, arg) EXCEPT !.turn = ExploreTurnTaken(verb),
                                             !.index = i,
                                             !.map = IF verb = "map"
                                                     THEN GenerateMap(State)
                                                     ELSE NoMap,
                                             !.hp1 = st.hp, !.hp2 = st.hp,
                                             !.effects1 = st.status_effects]
     /\ pc' = "top"
     /\ UNCHANGED <<world, game_data, available_actions, menus, checked>>

\* Lines 687-820: one tick of combat mode for the i-th action of the menu.
CombatTick(i, sel, hits) ==
  LET verb == available_actions[i].verb
      arg == available_actions[i].arg
      o == CombatAction(State, verb, arg, sel, hits)
      r == IF o.turn
           THEN PostActionResolution(o.st, current_location)
           ELSE [st |-> o.st, raised |-> FALSE, victory |-> FALSE]
      st == IF r.raised THEN r.st ELSE EnvironmentalResolution(r.st, o.turn)
  IN /\ pc = "input"
     /\ game_mode = "combat"
     /\ Install(st)
     /\ last' = [TickStart(verb, arg) EXCEPT !.turn = o.turn, !.target = o.target,
                                             !.index = i,
                                             !.hp1 = o.st.hp, !.hp2 = r.st.hp,
                                             !.hits = hits, !.victory = r.victory,
                                             !.raised = r.raised,
                                             !.effects1 = o.st.status_effects,
                                             !.sel = sel]
     /\ pc' = IF r.raised THEN "over" ELSE "top"
     /\ UNCHANGED <<world, game_data, available_actions, menus, checked>>

Chosen(i, verbs) == i \in 1..Len(available_actions) /\ available_actions[i].verb \in verbs

Look == \E i \in 1..Len(available_actions) : Chosen(i, {"look"}) /\ ExploreTick(i)

ShowMap == \E i \in 1..Len(available_actions) : Chosen(i, {"map"}) /\ ExploreTick(i)

Go == \E i \in 1..Len(available_actions) : Chosen(i, {"go"}) /\ ExploreTick(i)

GetItem == \E i \in 1..Len(available_actions) : Chosen(i, {"get"}) /\ ExploreTick(i)

ShowInventory == \E i \in 1..Len(available_actions) : Chosen(i, {"inventory"}) /\ ExploreTick(i)

TalkTo == \E i \in 1..Len(available_actions) : Chosen(i, {"talk"}) /\ ExploreTick(i)

UseItem == \E i \in 1..Len(available_actions) : Chosen(i, {"use"}) /\ ExploreTick(i)

AttackMonster ==
  \E i \in 1..Len(available_actions) : Chosen(i, {"attack"}) /\ CombatTick(i, 0, {})

\* select_from_menu (lines 203-221) is asked only for an OffensiveItem.
UseItemInCombat ==
  \E i \in 1..Len(available_actions) :
    /\ Chosen(i, {"use"})
    /\ \E sel \in 0..Len(monsters[current_location]) :
         /\ sel # 0 => ItemData[available_actions[i].arg].kind = "OffensiveItem"
         /\ CombatTick(i, sel, {})

RetreatFromCombat ==
  \E i \in 1..Len(available_actions) :
    /\ Chosen(i, {"retreat"})
    /\ \E hits \in SUBSET (1..Len(monsters[current_location])) : CombatTick(i, 0, hits)

\* The verbs of combat match no branch of lines 620-684 in explore mode.
OtherInExplore ==
  \E i \in 1..Len(available_actions) : Chosen(i, {"attack", "retreat"}) /\ ExploreTick(i)

\* Any other verb of the menu in combat matches no branch of lines 690-742.
OtherInCombat ==
  \E i \in 1..Len(available_actions) :
    /\ Chosen(i, {"look", "map", "go", "get", "inventory", "talk"})
    /\ CombatTick(i, 0, {})

Next ==
  \/ Top
  \/ InvalidChoice
  \/ Quit
  \/ Look
  \/ ShowMap
  \/ Go
  \/ GetItem
  \/ ShowInventory
  \/ TalkTo
  \/ UseItem
  \/ OtherInExplore
  \/ AttackMonster
  \/ UseItemInCombat
  \/ RetreatFromCombat
  \/ OtherInCombat

Spec == Init /\ [][Next]_vars

\* The player who, in combat, selects an attack on a monster that is in the
\* location, in every tick: the attack branch of lines 690-698 with a
\* target found.
AttackPresent ==
  \E i \in 1..Len(available_actions) :
    /\ Chosen(i, {"attack"})
    /\ MonsterIndex(monsters[current_location], available_actions[i].arg) # 0
    /\ CombatTick(i, 0, {})

\* The loop with that player: any action of the menu in explore mode, an
\* attack on a present monster in combat.
NextFight ==
  \/ Top
  \/ Look
  \/ ShowMap
  \/ Go
  \/ GetItem
  \/ ShowInventory
  \/ TalkTo
  \/ UseItem
  \/ AttackPresent

\* AttackPresent can be taken: the program waits for input in combat and
\* the menu holds an attack on a monster of the location.  This is ENABLED
\* <<AttackPresent>>_vars: the tick has no other guard and always leaves
\* pc = "input".
AttackPossible ==
  /\ pc = "input" /\ game_mode = "combat"
  /\ \E i \in 1..Len(available_actions) :
       /\ Chosen(i, {"attack"})
       /\ MonsterIndex(monsters[current_location], available_actions[i].arg) # 0

\* Weak fairness of AttackPresent, WF_vars(AttackPresent), written out with
\* AttackPossible for the ENABLED predicate.
AttackEveryTick == []<>(~AttackPossible) \/ []<><<AttackPresent>>_vars

\* The interpreter runs the loop body up to input() (line 583, while True),
\* and in combat the player answers input() with the attack: both steps are
\* taken when they stay possible.  Nothing is required of the player in
\* explore mode.
SpecFight ==
  Init /\ [][NextFight]_vars /\ WF_vars(Top) /\ AttackEveryTick


\* ------------------------------------------------------------------ claims
\* The state is the one the last tick ended in: the next iteration has not
\* run its transition check.
TickJustEnded == pc # "input"

\* The damage the player's action of the last tick dealt to its target.
LastDamage ==
  IF last.verb = "attack" THEN AttackPower ELSE ItemData[last.arg].amount

\* The last tick was a combat tick that took a turn and hit a monster.
LastHit == last.mode = "combat" /\ last.turn /\ last.target # 0

\* The last tick defeated a monster whose prototype id is a key of
\* spawns_on_defeat of the location of the fight.
LastDefeatedSpawner ==
  /\ LastHit
  /\ last.monsters0[last.target].hp - LastDamage <= 0
  /\ PrototypeId(last.monsters0[last.target])
       \in DOMAIN LocationData[last.loc0].spawns_on_defeat

\* C1: whenever the menu is generated (the program waits for the choice),
\* the mode is combat if and only if the player's location has a monster.
C1_MenuModeIffMonsters ==
  pc = "input" => (game_mode = "combat" <=> monsters[current_location] # <<>>)

\* A menu in combat right after the player walked into a location with
\* monsters.
C1_Witness ==
  /\ pc = "input"
  /\ game_mode = "combat"
  /\ last.mode = "explore"
  /\ last.verb = "go"
  /\ current_location # last.loc0

\* C2: a tick that defeats a monster whose prototype id has a
\* spawns_on_defeat entry appends a fresh copy of the replacement to the
\* monster list of the location: the tick completes, declares no victory,
\* and combat goes on against the replacement.
C2_SpawnOnDefeat ==
  LastDefeatedSpawner =>
    LET spawned == LocationData[last.loc0].spawns_on_defeat[
                     PrototypeId(last.monsters0[last.target])]
    IN /\ ~last.raised
       /\ ~last.victory
       /\ TickJustEnded => game_mode = "combat"
       /\ \E k \in 1..Len(monsters[last.loc0]) :
            /\ PrototypeId(monsters[last.loc0][k]) = spawned
            /\ monsters[last.loc0][k].hp = MonsterData[spawned].hp

SumAttackPower(mons) == SumSeq([i \in 1..Len(mons) |-> mons[i].attack_power])

\* The sum of attack_power over the monsters of a list at the indices of a set.
SumAttackPowerAt(mons, indices) ==
  SumSeq([i \in 1..Len(mons) |-> IF i \in indices THEN mons[i].attack_power ELSE 0])

\* The hp the j-th monster of the list the tick started with has after the
\* player's action of the tick.
HpAfterAction(j) ==
  last.monsters0[j].hp - (IF j = last.target THEN LastDamage ELSE 0)

\* C4: after a turn-consuming combat action no monster with hp <= 0 is in
\* the monster list of the location, a monster whose hp is still > 0 has
\* not been removed, and if the list is empty the mode is explore again and
\* no enemy turn lowered the player's hp in the tick.
C4_DefeatedRemovedInTick ==
  (last.mode = "combat" /\ last.turn) =>
    /\ \A k \in 1..Len(monsters[last.loc0]) : monsters[last.loc0][k].hp > 0
    /\ \A j \in 1..Len(last.monsters0) :
         HpAfterAction(j) > 0 =>
           \E k \in 1..Len(monsters[last.loc0]) : monsters[last.loc0][k].id = last.monsters0[j].id
    /\ monsters[last.loc0] = <<>> =>
         ((TickJustEnded => game_mode = "explore") /\ last.hp2 = last.hp1)

\* C5: when a turn-consuming attack or item use leaves a monster in the
\* location, the enemy turn of the tick lowers the player's hp by exactly
\* the sum of attack_power over the monsters in the list.
C5_EnemyTurnDamage ==
  ( /\ last.mode = "combat"
    /\ last.turn
    /\ last.verb \in {"attack", "use"}
    /\ monsters[last.loc0] # <<>> ) =>
      last.hp1 - last.hp2 = SumAttackPower(monsters[last.loc0])

\* C6: an attack on a monster id that is present lowers that monster's hp
\* by the player's attack_power and no other monster's hp; an attack on an
\* id that is not present changes no hp and takes no turn.
C6_AttackHitsOnlyTarget ==
  (last.mode = "combat" /\ last.verb = "attack") =>
    IF last.target # 0
    THEN /\ last.turn
         /\ last.monsters0[last.target].id = last.arg
         /\ \A k \in 1..Len(monsters[last.loc0]) :
              \E j \in 1..Len(last.monsters0) :
                /\ last.monsters0[j].id = monsters[last.loc0][k].id
                /\ monsters[last.loc0][k].hp =
                     last.monsters0[j].hp - (IF j = last.target THEN AttackPower ELSE 0)
         /\ \A j \in 1..Len(last.monsters0) :
              (j # last.target \/ last.monsters0[j].hp - AttackPower > 0) =>
                \E k \in 1..Len(monsters[last.loc0]) :
                  monsters[last.loc0][k].id = last.monsters0[j].id
    ELSE /\ ~last.turn
         /\ \A j \in 1..Len(last.monsters0) : last.monsters0[j].id # last.arg
         /\ monsters[last.loc0] = last.monsters0
         /\ hp = last.hp0

\* An attack that hit a monster which survived it, next to another monster.
C6_Witness ==
  /\ last.mode = "combat"
  /\ last.verb = "attack"
  /\ last.target # 0
  /\ Len(monsters[last.loc0]) >= 2
  /\ \E k \in 1..Len(monsters[last.loc0]) :
       /\ monsters[last.loc0][k].id = last.arg
       /\ monsters[last.loc0][k].hp = last.monsters0[last.target].hp - AttackPower

\* An attack on a monster id that is not in the location.
C6_WitnessAbsent ==
  /\ last.mode = "combat"
  /\ last.verb = "attack"
  /\ last.target = 0
  /\ last.monsters0 # <<>>

\* C7: a retreat lowers the player's hp by the sum of attack_power over the
\* monsters that hit; a player who is then alive stands in
\* previous_location in explore mode and no enemy turn followed; a player
\* who is not stays where the fight was, and no further action is resolved.
C7_Retreat ==
  (last.mode = "combat" /\ last.verb = "retreat") =>
    /\ last.hp1 = last.hp0 - SumAttackPowerAt(last.monsters0, last.hits)
    /\ last.hp1 > 0 =>
         /\ current_location = last.prev0
         /\ TickJustEnded => game_mode = "explore"
         /\ last.hp2 = last.hp1
    /\ last.hp1 <= 0 =>
         /\ current_location = last.loc0
         /\ hp = last.hp1
         /\ pc # "input"

\* A retreat in which every one of two monsters hit, survived.
C7_Witness ==
  /\ last.mode = "combat"
  /\ last.verb = "retreat"
  /\ Len(last.monsters0) >= 2
  /\ last.hits = 1..Len(last.monsters0)
  /\ hp > 0
  /\ current_location # last.loc0
  /\ pc = "top"

\* A retreat the player did not survive.
C7_WitnessFatal ==
  /\ last.mode = "combat"
  /\ last.verb = "retreat"
  /\ last.hp1 <= 0
  /\ pc = "over"

\* C8: in a combat tick a monster's hp falls only if the tick resolved an
\* attack or an OffensiveItem use on that monster, and the player's hp
\* falls only by the hits of a retreat, by an enemy turn or by the volcanic
\* burn; a tick that took no turn lowers no hp.
C8_HpFallsOnlyByCombat ==
  last.mode = "combat" =>
    /\ \A j \in 1..Len(last.monsters0) :
         \A k \in 1..Len(monsters[last.loc0]) :
           ( /\ monsters[last.loc0][k].id = last.monsters0[j].id
             /\ monsters[last.loc0][k].hp < last.monsters0[j].hp ) =>
               /\ last.turn
               /\ j = last.target
               /\ \/ last.verb = "attack"
                  \/ last.verb = "use" /\ ItemData[last.arg].kind = "OffensiveItem"
    /\ last.hp1 < last.hp0 => (last.verb = "retreat" /\ last.hits # {})
    /\ last.hp2 < last.hp1 =>
         (last.turn /\ last.verb # "retreat" /\ monsters[last.loc0] # <<>>)
    /\ hp < last.hp2 =>
         (last.turn /\ IsVolcanic(current_location) /\ hp = last.hp2 - FireDamage)
    /\ ~last.turn => (hp >= last.hp0 /\ monsters[last.loc0] = last.monsters0)

\* A combat tick that lowered the hp of a monster, which survived, and the
\* hp of the player.
C8_Witness ==
  /\ last.mode = "combat"
  /\ last.turn
  /\ last.target # 0
  /\ hp < last.hp0
  /\ \E k \in 1..Len(monsters[last.loc0]) :
       /\ monsters[last.loc0][k].id = last.monsters0[last.target].id
       /\ monsters[last.loc0][k].hp < last.monsters0[last.target].hp


\* The number of occurrences of x in the sequence s.
Count(s, x) == Cardinality({i \in 1..Len(s) : s[i] = x})

\* The last tick resolved a use of an item of the class: in explore mode
\* (line 680), or in combat with the turn taken (lines 705-716).
LastUsed(kind) ==
  /\ last.verb = "use"
  /\ ItemData[last.arg].kind = kind
  /\ last.mode = "combat" => last.turn

\* C9: using a Container that holds items adds every contained item to the
\* inventory and leaves its contained_items empty; using a Container that
\* is empty adds nothing and does not consume it: it is still in the
\* inventory.
C9_ContainerUse ==
  (last.mode = "explore" /\ LastUsed("Container")) =>
    IF last.contained0[last.arg] # <<>>
    THEN /\ contained_items[last.arg] = <<>>
         /\ \A x \in Range(last.contained0[last.arg]) :
              Count(inventory, x) = Count(last.inventory0, x) + Count(last.contained0[last.arg], x)
    ELSE /\ contained_items[last.arg] = <<>>
         /\ inventory = last.inventory0

\* C10: every use of an OffensiveItem, in explore mode or in combat, takes
\* its damage_amount from the hp of a chosen monster and removes the item
\* from the inventory; it does not lower the player's hp.
C10_OffensiveItemUse ==
  LastUsed("OffensiveItem") =>
    /\ last.target # 0
    /\ \A k \in 1..Len(monsters[last.loc0]) :
         monsters[last.loc0][k].id = last.monsters0[last.target].id =>
           monsters[last.loc0][k].hp = last.monsters0[last.target].hp - ItemData[last.arg].amount
    /\ Count(inventory, last.arg) = Count(last.inventory0, last.arg) - 1
    /\ last.hp1 >= last.hp0

\* The player and world state is the one the last tick started in (the
\* game mode is compared when the tick has just ended).
SameAsTickStart ==
  /\ hp = last.state0.hp
  /\ inventory = last.state0.inventory
  /\ current_location = last.state0.current_location
  /\ previous_location = last.state0.previous_location
  /\ status_effects = last.state0.status_effects
  /\ quests = last.state0.quests
  /\ discovered_locations = last.state0.discovered_locations
  /\ monsters = last.state0.monsters
  /\ items = last.state0.items
  /\ contained_items = last.state0.contained_items
  /\ npcs = last.state0.npcs
  /\ TickJustEnded => game_mode = last.state0.game_mode

\* The command of the last tick named a target that was not there when the
\* tick started.
LastTargetAbsent ==
  LET st0 == last.state0
      loc == st0.current_location
  IN /\ last.mode \in {"explore", "combat"}
     /\ last.verb \in {"attack", "get", "talk", "use"}
     /\ last.verb = "attack" => MonsterIndex(st0.monsters[loc], last.arg) = 0
     /\ last.verb = "get" => FirstIndex(st0.items[loc], last.arg) = 0
     /\ last.verb = "talk" => \A i \in 1..Len(st0.npcs[loc]) : st0.npcs[loc][i].id # last.arg
     /\ last.verb = "use" => FirstIndex(st0.inventory, last.arg) = 0

\* C11: a command whose target is absent when it is resolved (attack on a
\* monster id not in the location, get of an item id not on the ground,
\* talk to an npc id not there, use of an item id not in the inventory)
\* changes no player or world state, in explore mode and in combat, and
\* in combat it takes no turn.
C11_AbsentTargetChangesNothing ==
  LastTargetAbsent =>
    /\ SameAsTickStart
    /\ last.mode = "combat" => ~last.turn

C11_Witness ==
  /\ LastTargetAbsent
  /\ last.mode = "combat"
  /\ last.verb = "use"
  /\ hp < StartHp

C11_WitnessExplore ==
  /\ LastTargetAbsent
  /\ last.mode = "explore"
  /\ last.verb \in {"get", "use"}
  /\ inventory # <<>>

\* The last tick was a tick of the loop that resolved a menu action.
LastResolved == last.mode \in {"explore", "combat"} /\ last.verb # "quit"

\* The player holds an item named "Fireproof Armor" or has fire_resistance
\* when the environmental resolution of the last tick is due.
LastFireProtected ==
  \/ \E i \in 1..Len(inventory) : ItemData[inventory[i]].name = "Fireproof Armor"
  \/ "fire_resistance" \in DOMAIN last.effects1

C12_BurnInCombatTicks ==
  LastResolved =>
    IF /\ last.mode = "combat" /\ ~last.raised
       /\ last.turn
       /\ IsAlive(last.hp2)
       /\ IsVolcanic(current_location)
       /\ ~LastFireProtected
    THEN hp = last.hp2 - FireDamage
    ELSE hp = last.hp2

\* The remaining turns of fire_resistance in a status_effects mapping, 0
\* when the effect is not active.
FireResistanceLeft(effects) ==
  IF "fire_resistance" \in DOMAIN effects THEN effects["fire_resistance"] ELSE 0

\* The last tick drank an EffectPotion of fire_resistance that the player
\* held, in a Volcanic location.
LastDrankFireResistance ==
  /\ LastResolved
  /\ last.verb = "use"
  /\ ItemData[last.arg].kind = "EffectPotion"
  /\ ItemData[last.arg].effect = "fire_resistance"
  /\ FirstIndex(last.state0.inventory, last.arg) # 0
  /\ IsVolcanic(last.state0.current_location)

\* The last tick started in a Volcanic location with fire_resistance active
\* and took a turn that left the player alive.
LastTurnUnderFireResistance ==
  /\ LastResolved
  /\ ~LastDrankFireResistance
  /\ last.turn
  /\ IsAlive(last.hp2)
  /\ IsVolcanic(last.state0.current_location)
  /\ FireResistanceLeft(last.state0.status_effects) >= 1

\* One tick of the d protected ticks: the tick in which the potion is drunk
\* takes a turn, is not burnt and leaves d - 1 turns; a later tick that takes
\* a turn with r turns left is not burnt and leaves r - 1, the effect being
\* removed at 0.
FireResistanceTick(in_scope) ==
  /\ (LastDrankFireResistance /\ IsAlive(last.hp2) /\ in_scope) =>
        /\ last.turn
        /\ hp = last.hp2
        /\ FireResistanceLeft(status_effects) = ItemData[last.arg].amount - 1
        /\ FireResistanceLeft(status_effects) = 0 => "fire_resistance" \notin DOMAIN status_effects
  /\ (LastTurnUnderFireResistance /\ in_scope) =>
        /\ IsVolcanic(current_location) => hp = last.hp2
        /\ FireResistanceLeft(status_effects) = FireResistanceLeft(last.state0.status_effects) - 1
        /\ FireResistanceLeft(status_effects) = 0 => "fire_resistance" \notin DOMAIN status_effects

C13_InCombatTicks == FireResistanceTick(last.mode = "combat" /\ ~last.raised)

C13_InCombatTicksWitness ==
  /\ LastTurnUnderFireResistance
  /\ last.mode = "combat" /\ ~last.raised
  /\ "fire_resistance" \notin DOMAIN status_effects

\* The status effects are those of effects, each lowered by 1 and removed
\* when that leaves 0 or less.
CooledDownFrom(effects) ==
  /\ DOMAIN status_effects \subseteq DOMAIN effects
  /\ \A e \in DOMAIN effects :
        IF effects[e] - 1 <= 0
        THEN e \notin DOMAIN status_effects
        ELSE e \in DOMAIN status_effects /\ status_effects[e] = effects[e] - 1

\* The ticks of which Cooldown is asked: in_scope limits them.
CooldownTick(in_scope) ==
  /\ (LastResolved /\ in_scope) =>
        IF last.turn /\ IsAlive(last.hp2)
        THEN CooledDownFrom(last.effects1)
        ELSE status_effects = last.effects1
  /\ (LastResolved /\ ~last.turn) => status_effects = last.state0.status_effects
  /\ pc = "input" => \A e \in DOMAIN status_effects : status_effects[e] >= 1

\* C14: after every tick that took a turn and left the player alive every
\* active status effect has one turn less and those at 0 or less are
\* removed, so at the menu every remaining duration is at least 1; a tick
\* without a turn leaves status_effects unchanged.
C14_StatusCooldown == CooldownTick(TRUE)

\* What does hold: the same of the combat ticks that did not raise.
C14_InCombatTicks == CooldownTick(last.mode = "combat" /\ ~last.raised)

\* A step taken when the player's hp is 0 or less ends the loop and changes
\* no player or world state: no action is resolved.
DeadStep ==
  hp <= 0 =>
    /\ pc' = "over"
    /\ UNCHANGED <<game_mode, hp, inventory, current_location, previous_location,
                   status_effects, quests, discovered_locations, monsters, items,
                   contained_items, npcs, menus, last, checked>>

\* The tick that brought the hp to 0 or less applied neither burn nor
\* cooldown after the blow that did it: the player's action (hp1), the
\* enemy turn (hp2) or, when both left the player alive, the burn.
NothingAfterKillingBlow ==
  (hp <= 0 /\ LastResolved) =>
    /\ status_effects = last.effects1
    /\ hp = IF IsAlive(last.hp2) THEN last.hp2 - FireDamage ELSE last.hp2

FatalTick ==
  (hp <= 0 /\ LastResolved) =>
    IF IsAlive(last.hp2)
    THEN /\ last.mode = "combat" /\ last.turn
         /\ hp = last.hp2 - FireDamage
         /\ CooledDownFrom(last.effects1)
    ELSE /\ hp = last.hp2
         /\ status_effects = last.effects1

C15_WitnessEnemyTurn ==
  /\ pc = "over"
  /\ hp <= 0
  /\ ~IsAlive(last.hp2) /\ IsAlive(last.hp1)
  /\ IsVolcanic(current_location)
  /\ status_effects # EmptyMap

\* One clause holds of the player: has_item names an item id of the
\* inventory, quest_completed names a quest whose state is "completed", any
\* other clause holds.
ClauseHolds(clause) ==
  /\ clause.type = "has_item" => \E i \in 1..Len(inventory) : inventory[i] = clause.id
  /\ clause.type = "quest_completed" =>
        clause.id \in DOMAIN quests /\ quests[clause.id] = "completed"

\* C16: check_conditions returns true iff every has_item clause names an
\* item id of the inventory and every quest_completed clause names a quest
\* whose state is "completed" (a quest not in the log is not completed);
\* clauses of any other type hold and the empty list gives true.
C16_CheckConditions ==
  checked.called =>
    checked.result = (\A k \in 1..Len(checked.conditions) : ClauseHolds(checked.conditions[k]))

\* A list of all three kinds of clause that holds.
C16_Witness ==
  /\ checked.called
  /\ checked.result = TRUE
  /\ \A t \in {"has_item", "quest_completed", "min_level"} :
        \E k \in 1..Len(checked.conditions) : checked.conditions[k].type = t

\* A list that fails on a quest that is not in the log, after a clause that holds.
C16_WitnessMissingQuest ==
  /\ checked.called
  /\ checked.result = FALSE
  /\ Len(checked.conditions) >= 2
  /\ ClauseHolds(checked.conditions[1])
  /\ checked.conditions[2] = [type |-> "quest_completed", id |-> "q_missing"]

\* The last tick was a combat tick that chose use on an item of the given
\* classes that the player held.
LastCombatUse(kinds) ==
  /\ last.mode = "combat"
  /\ last.verb = "use"
  /\ FirstIndex(last.state0.inventory, last.arg) # 0
  /\ ItemData[last.arg].kind \in kinds

\* C17: in combat, use of an item that is no Potion, EffectPotion or
\* OffensiveItem, and a cancelled target selection of an OffensiveItem,
\* take no turn: the item stays, no enemy turn, burn or cooldown follows
\* and nothing changes; a Potion or EffectPotion is applied to the player,
\* removed from the inventory and takes the turn.
C17_CombatUse ==
  /\ ( \/ LastCombatUse({"Item", "Container"})
       \/ LastCombatUse({"OffensiveItem"}) /\ last.sel = 0 ) =>
        /\ ~last.turn
        /\ SameAsTickStart
  /\ LastCombatUse({"Potion", "EffectPotion"}) =>
        /\ last.turn
        /\ inventory = RemoveFirst(last.state0.inventory, last.arg)
        /\ ItemData[last.arg].kind = "Potion" =>
              last.hp1 = last.state0.hp + ItemData[last.arg].amount
        /\ ItemData[last.arg].kind = "EffectPotion" =>
              /\ ItemData[last.arg].effect \in DOMAIN last.effects1
              /\ last.effects1[ItemData[last.arg].effect] = ItemData[last.arg].amount

\* A cancelled target selection, with monsters that would have struck.
C17_Witness ==
  /\ LastCombatUse({"OffensiveItem"})
  /\ last.sel = 0
  /\ pc = "top"
  /\ EnemyTurnDamage(monsters[current_location]) > 0

C17_WitnessUnusable == LastCombatUse({"Item", "Container"}) /\ hp < StartHp

C17_WitnessPotion ==
  /\ LastCombatUse({"Potion"})
  /\ hp > 0
  /\ hp < last.hp1

\* The last tick defeated the monster its action hit.
LastDefeat == LastHit /\ HpAfterAction(last.target) <= 0

\* C18: when a monster is defeated, a drop whose id is in the unique set is
\* not added to the ground if an item of that id is in the inventory or on
\* the ground of that location (so the defeat adds no second item of that
\* id there, and none next to one the player holds); every other drop is
\* appended to the ground.
C18_UniqueDrops ==
  LastDefeat =>
    LET drops == last.monsters0[last.target].drops
        ground0 == last.state0.items[last.loc0]
        ground == items[last.loc0]
    IN /\ Len(ground) >= Len(ground0)
       /\ SubSeq(ground, 1, Len(ground0)) = ground0
       /\ \A x \in ItemIds :
            IF x \in UniqueItemIds
            THEN IF Count(ground0, x) > 0 \/ Count(inventory, x) > 0
                 THEN Count(ground, x) = Count(ground0, x)
                 ELSE Count(ground, x) = (IF Count(drops, x) > 0 THEN 1 ELSE 0)
            ELSE Count(ground, x) = Count(ground0, x) + Count(drops, x)

\* A unique drop withheld for the one the player holds, next to a drop that
\* is appended.
C18_Witness ==
  /\ LastDefeat
  /\ Count(last.monsters0[last.target].drops, "lantern_1") > 0
  /\ Count(inventory, "lantern_1") > 0
  /\ Count(items[last.loc0], "lantern_1") = 0
  /\ Count(items[last.loc0], "coin_1") > 0

\* A unique drop withheld for the one on the ground.
C18_WitnessOnGround ==
  /\ LastDefeat
  /\ Count(last.monsters0[last.target].drops, "lantern_1") > 0
  /\ Count(inventory, "lantern_1") = 0
  /\ Count(last.state0.items[last.loc0], "lantern_1") = 1
  /\ Count(items[last.loc0], "coin_1") = 2

\* What a step does to the quest log: no quest is added or removed, a
\* completed quest stays completed, and a quest changes state only to
\* "completed" and only in a tick that defeats a monster whose
\* completes_quest_id is that quest.
QuestStep ==
  /\ DOMAIN quests' = DOMAIN quests
  /\ \A q \in DOMAIN quests :
        /\ quests[q] = "completed" => quests'[q] = "completed"
        /\ quests'[q] # quests[q] =>
              /\ quests'[q] = "completed"
              /\ pc = "input" /\ game_mode = "combat"
              /\ LastDefeat'
              /\ last'.monsters0[last'.target].completes_quest_id = q

\* C19: a quest changes state only in a tick that defeats a monster whose
\* completes_quest_id names it, and only to "completed"; a completed quest
\* never leaves that state; a completes_quest_id that is no key of
\* player.quests adds no entry.
C19_QuestCompletion == [][QuestStep]_vars

\* The last tick completed a quest that was not completed.
C19_Witness ==
  /\ LastDefeat
  /\ \E q \in DOMAIN quests :
        /\ last.monsters0[last.target].completes_quest_id = q
        /\ last.state0.quests[q] = "active"
        /\ quests[q] = "completed"

\* The last tick defeated a monster whose completes_quest_id is no quest of
\* the log.
C19_WitnessNoSuchQuest ==
  /\ LastDefeat
  /\ last.monsters0[last.target].completes_quest_id = "q_bandit"
  /\ "q_bandit" \notin DOMAIN quests

\* The last tick defeated a monster whose quest was completed before.
C19_WitnessAlreadyCompleted ==
  /\ LastDefeat
  /\ \E q \in DOMAIN quests :
        /\ last.monsters0[last.target].completes_quest_id = q
        /\ last.state0.quests[q] = "completed"

\* C20: choosing map takes no turn and changes nothing: hp, inventory,
\* status_effects, quests, location, discovered_locations and the occupant
\* lists of every location are as before, and no enemy turn, burn or
\* cooldown follows.
C20_MapChangesNothing ==
  (LastResolved /\ last.verb = "map") =>
    /\ ~last.turn
    /\ SameAsTickStart
    /\ last.hp1 = last.state0.hp /\ last.hp2 = last.state0.hp
    /\ ~last.victory /\ ~last.raised

\* The map chosen in explore mode in a Volcanic location with a status
\* effect active.
C20_Witness ==
  /\ LastResolved /\ last.verb = "map"
  /\ last.mode = "explore"
  /\ pc = "top"
  /\ IsVolcanic(current_location)
  /\ status_effects # EmptyMap

\* The map chosen in a fight in a Volcanic location.
C20_WitnessCombat ==
  /\ LastResolved /\ last.verb = "map"
  /\ last.mode = "combat"
  /\ IsVolcanic(current_location)
  /\ EnemyTurnDamage(monsters[current_location]) > 0
  /\ status_effects # EmptyMap

\* What a step does to discovered_locations: no id leaves it, and it grows
\* only in an explore tick that chose go and moved, by exactly the id of the
\* location moved into.
DiscoveredStep ==
  /\ discovered_locations \subseteq discovered_locations'
  /\ discovered_locations' # discovered_locations =>
        /\ pc = "input" /\ game_mode = "explore"
        /\ last'.verb = "go"
  /\ (pc = "input" /\ game_mode = "explore" /\ pc' = "top" /\ last'.verb = "go"
        /\ current_location' # current_location) =>
        discovered_locations' = discovered_locations \cup {current_location'}

\* C21: discovered_locations only grows: no move, retreat, combat tick,
\* item use or map removes an id from it, and a move that succeeds adds
\* exactly the id of the location moved into.
C21_DiscoveredOnlyGrows == [][DiscoveredStep]_vars

\* A move into a location that was not discovered.
C21_Witness ==
  /\ LastResolved /\ last.verb = "go"
  /\ current_location \notin last.state0.discovered_locations
  /\ discovered_locations = last.state0.discovered_locations \cup {current_location}
  /\ Cardinality(discovered_locations) >= 2

\* A retreat the player survived.
C21_WitnessRetreat ==
  /\ LastResolved /\ last.verb = "retreat"
  /\ current_location # last.loc0
  /\ Cardinality(discovered_locations) >= 2

\* The templates of the current mode and then of the always bucket.
TemplatesOfMode == Menus[game_mode] \o Menus.always

\* The named condition of a template that is not iterated holds.
NamedConditionHolds(t) ==
  /\ t.condition = "player.inventory" => inventory # <<>>
  /\ t.condition = "has_usable_item" =>
        \E i \in 1..Len(inventory) :
          ItemData[inventory[i]].kind \in {"Potion", "EffectPotion", "OffensiveItem"}

\* The ids of the elements of the collection a template iterates, in source
\* order, and the class of the k-th of them.
ElementIds(t) ==
  LET loc == current_location
  IN IF t.iterate = "location.exits"
     THEN [k \in 1..Len(LocationData[loc].exits) |-> LocationData[loc].exits[k][1]]
     ELSE IF t.iterate = "location.npcs"
     THEN [k \in 1..Len(npcs[loc]) |-> npcs[loc][k].id]
     ELSE IF t.iterate = "location.items" THEN items[loc]
     ELSE IF t.iterate = "player.inventory" THEN inventory
     ELSE IF t.iterate = "location.monsters"
     THEN [k \in 1..Len(monsters[loc]) |-> monsters[loc][k].id]
     ELSE <<>>

ElementPasses(t, k) ==
  LET is_item == t.iterate \in {"location.items", "player.inventory"}
  IN /\ t.condition = "is_potion" =>
          is_item /\ ItemData[ElementIds(t)[k]].kind \in {"Potion", "EffectPotion"}
     /\ t.condition = "is_usable_in_combat" =>
          is_item /\ ItemData[ElementIds(t)[k]].kind \in {"Potion", "EffectPotion", "OffensiveItem"}

\* The actions the claim gives for one template.
ActionsOfTemplate(t) ==
  IF t.iterate = "none"
  THEN IF NamedConditionHolds(t) THEN << [verb |-> t.verb, arg |-> t.arg] >> ELSE <<>>
  ELSE LET passing == {k \in 1..Len(ElementIds(t)) : ElementPasses(t, k)}
           nth(n) == CHOOSE k \in passing : Cardinality({j \in passing : j < k}) = n - 1
       IN [n \in 1..Cardinality(passing) |-> [verb |-> t.verb, arg |-> ElementIds(t)[nth(n)]]]

RECURSIVE ActionsOfTemplates(_)
ActionsOfTemplates(ts) ==
  IF ts = <<>> THEN <<>> ELSE ActionsOfTemplate(Head(ts)) \o ActionsOfTemplates(Tail(ts))

\* The conditional exits of the current location whose conditions hold, by
\* their indices in the location's list.
OpenConditionalExits ==
  LET c_exits == LocationData[current_location].conditional_exits
  IN {k \in 1..Len(c_exits) :
        \A j \in 1..Len(c_exits[k].conditions) : ClauseHolds(c_exits[k].conditions[j])}

SyntheticGoActions ==
  LET c_exits == LocationData[current_location].conditional_exits
      nth(n) == CHOOSE k \in OpenConditionalExits :
                  Cardinality({j \in OpenConditionalExits : j < k}) = n - 1
  IN [n \in 1..Cardinality(OpenConditionalExits) |->
        [verb |-> "go", arg |-> c_exits[nth(n)].direction]]

\* The menu is the list the claim gives.
MenuAsClaimed ==
  pc = "input" =>
    available_actions = ActionsOfTemplates(TemplatesOfMode) \o SyntheticGoActions

\* What the action names is there: a direction of an exit or of an open
\* conditional exit, an item on the ground, an npc or a monster of the
\* location.
TargetPresent(a) ==
  LET loc == current_location
  IN /\ a.verb = "go" =>
          \/ \E k \in 1..Len(LocationData[loc].exits) : LocationData[loc].exits[k][1] = a.arg
          \/ \E k \in OpenConditionalExits :
                LocationData[loc].conditional_exits[k].direction = a.arg
     /\ a.verb = "get" => \E k \in 1..Len(items[loc]) : items[loc][k] = a.arg
     /\ a.verb = "talk" => \E k \in 1..Len(npcs[loc]) : npcs[loc][k].id = a.arg
     /\ a.verb = "attack" => \E k \in 1..Len(monsters[loc]) : monsters[loc][k].id = a.arg

\* The action is a template that is not iterated, as written.
WrittenInTemplate(a) ==
  \E k \in 1..Len(TemplatesOfMode) :
    /\ TemplatesOfMode[k].iterate = "none"
    /\ TemplatesOfMode[k].verb = a.verb
    /\ TemplatesOfMode[k].arg = a.arg

\* C22 as claimed: the menu is, template by template in declaration order
\* (mode bucket, then always bucket), the template itself or one action per
\* passing element in source order, then one go action per open conditional
\* exit; and no action names an exit, item, npc or monster that is not
\* present.
C22_ActionList ==
  /\ MenuAsClaimed
  /\ pc = "input" => \A i \in 1..Len(available_actions) : TargetPresent(available_actions[i])

\* C22, amended: the same list; every action instantiated from a collection
\* or from a conditional exit names something present, while a template
\* that is not iterated is returned as written, whatever its command names.
C22_ActionListAmended ==
  /\ MenuAsClaimed
  /\ pc = "input" =>
        \A i \in 1..Len(available_actions) :
          \/ TargetPresent(available_actions[i])
          \/ WrittenInTemplate(available_actions[i])

\* A menu of a fight with instantiated attack and use actions and a
\* synthetic go action.
C22_Witness ==
  /\ pc = "input"
  /\ game_mode = "combat"
  /\ OpenConditionalExits # {}
  /\ \E i \in 1..Len(available_actions) : available_actions[i].verb = "use"
  /\ available_actions[Len(available_actions)].verb = "go"

\* A menu with a template as written that names a monster that is not there.
C22_WitnessWritten ==
  /\ pc = "input"
  /\ \E i \in 1..Len(available_actions) :
        /\ available_actions[i].verb = "attack"
        /\ ~TargetPresent(available_actions[i])

\* A step that generates the menu changes neither the player nor the world.
MenuStep ==
  (pc = "top" /\ pc' = "input") =>
    UNCHANGED <<hp, inventory, current_location, previous_location, status_effects,
                quests, discovered_locations, monsters, items, contained_items, npcs>>

\* At the menu, a second call of the generator on the state the first call
\* left returns the list the first one returned, and the templates are the
\* ones that were loaded.
SecondCallSame ==
  /\ pc = "input" => GetAvailableActions(game_mode) = available_actions
  /\ menus = Menus

TalkStep(l, k) ==
  /\ pc = "input" /\ game_mode = "explore" /\ pc' = "top"
  /\ last'.verb = "talk"
  /\ current_location = l
  /\ npcs[l][k].id = last'.arg
  /\ \A j \in 1..(k - 1) : npcs[l][j].id # last'.arg

\* What a step does to the grant lists and, in a talk, to the inventory.
GrantStep ==
  \A l \in LocationIds : \A k \in 1..Len(npcs[l]) :
    /\ Len(npcs'[l]) = Len(npcs[l])
    /\ npcs'[l][k].gives_items_on_talk # npcs[l][k].gives_items_on_talk => TalkStep(l, k)
    /\ TalkStep(l, k) =>
          /\ npcs'[l][k].gives_items_on_talk = <<>>
          /\ npcs[l][k].gives_items_on_talk = <<>> => inventory' = inventory
          /\ Len(inventory') >= Len(inventory)
          /\ SubSeq(inventory', 1, Len(inventory)) = inventory
          /\ \A i \in (Len(inventory) + 1)..Len(inventory') :
                /\ inventory'[i] \in Range(npcs[l][k].gives_items_on_talk)
                /\ Count(inventory, inventory'[i]) = 0

\* C24: an npc instance adds items to the inventory at most in the first
\* talk with it that finds it; after that talk its grant list is empty, it
\* is never filled again, and every later talk with it leaves the inventory
\* unchanged.
C24_GrantsOnce == [][GrantStep]_vars

\* A later talk with an npc whose gift the player no longer holds.
C24_Witness ==
  /\ LastResolved /\ last.mode = "explore" /\ last.verb = "talk"
  /\ \E k \in 1..Len(npcs[current_location]) :
        /\ npcs[current_location][k].id = last.arg
        /\ last.state0.npcs[current_location][k].gives_items_on_talk = <<>>
        /\ \A i \in 1..Len(NpcData[last.arg].gives_items_on_talk) :
              Count(inventory, NpcData[last.arg].gives_items_on_talk[i]) = 0

\* The first talk, which gave an item.
C24_WitnessFirstTalk ==
  /\ LastResolved /\ last.mode = "explore" /\ last.verb = "talk"
  /\ Len(inventory) > Len(last.state0.inventory)

\* --------------------------------------------------------------------- C25
\* The last tick drew the map (explore mode, lines 619-622) and nothing has
\* changed since.
MapJustDrawn == TickJustEnded /\ last.map.drawn

\* The locations one step from l: over a static exit, or over a conditional
\* exit whose conditions all hold for the player.
OneStep(l) ==
  LET exits == LocationData[l].exits
      c_exits == LocationData[l].conditional_exits
  IN {exits[i][2] : i \in 1..Len(exits)}
     \cup {c_exits[k].destination :
             k \in {j \in 1..Len(c_exits) :
                      \A n \in 1..Len(c_exits[j].conditions) : ClauseHolds(c_exits[j].conditions[n])}}

RECURSIVE ReachableFrom(_)
ReachableFrom(S) ==
  LET T == S \cup UNION {OneStep(l) : l \in S}
  IN IF T = S THEN S ELSE ReachableFrom(T)

\* C25: when the map is drawn, the locations of its accessible graph are
\* exactly those reachable from the current location over static exits and
\* conditional exits whose conditions hold, the current location among them.
C25_AccessibleGraph ==
  MapJustDrawn =>
    /\ DOMAIN last.map.graph = ReachableFrom({current_location})
    /\ current_location \in DOMAIN last.map.graph

\* What does hold: the graph holds the current location and only reachable
\* locations, and each of its edges is a static exit or an open conditional
\* exit of the location it leaves.
C25_GraphWithinReach ==
  MapJustDrawn =>
    /\ current_location \in DOMAIN last.map.graph
    /\ DOMAIN last.map.graph \subseteq ReachableFrom({current_location})
    /\ \A l \in DOMAIN last.map.graph :
         \A i \in 1..Len(last.map.graph[l]) : last.map.graph[l][i][2] \in OneStep(l)

\* A map drawn with a closed conditional exit: what lies behind it alone is
\* not in the graph.
C25_WitnessClosed ==
  /\ MapJustDrawn
  /\ world = "gate_world" /\ current_location = "hall"
  /\ "cellar" \notin DOMAIN last.map.graph
  /\ "loft" \in DOMAIN last.map.graph

\* --------------------------------------------------------------------- C26
Compass == {"north", "south", "east", "west"}

\* Location l was given its cell from the neighbour p: p has a coordinate
\* and a compass edge to l in the graph, l is in the row that edge leads to,
\* at the computed column or to the right of it with every cell between
\* taken.
PlacedFrom(l, p) ==
  LET coords == last.map.coords
      edges == last.map.graph[p]
  IN /\ p \in DOMAIN coords /\ p \in DOMAIN last.map.graph
     /\ \E i \in 1..Len(edges) :
          /\ edges[i][2] = l
          /\ edges[i][1] \in Compass
          /\ LET nx == coords[p][1] + Delta(edges[i][1])[1]
                 ny == coords[p][2] + Delta(edges[i][1])[2]
             IN /\ coords[l][2] = ny
                /\ coords[l][1] >= nx
                /\ \A x \in nx..(coords[l][1] - 1) :
                     \E o \in DOMAIN coords : coords[o] = <<x, ny>>

\* C26: in the coordinates of a drawn map the current location is at
\* (0,0), every other location with a coordinate was reached over a north,
\* south, east or west edge and sits in the computed cell or, when that was
\* occupied, right of it past occupied cells only, and no two locations
\* have the same cell.
C26_Coordinates ==
  MapJustDrawn =>
    LET coords == last.map.coords
    IN /\ current_location \in DOMAIN coords
       /\ coords[current_location] = <<0, 0>>
       /\ \A l \in DOMAIN coords \ {current_location} :
            \E p \in DOMAIN coords \ {l} : PlacedFrom(l, p)
       /\ \A l, o \in DOMAIN coords : coords[l] = coords[o] => l = o

\* The map of the gate world drawn in the hall: the shed, south of the loft,
\* is shifted from the occupied cell (1,0) to (2,0), and the tower, reached
\* only over an up edge, is in the graph without a coordinate.
C26_Witness ==
  /\ MapJustDrawn
  /\ world = "gate_world" /\ current_location = "hall"
  /\ "yard" \in DOMAIN last.map.coords /\ last.map.coords["yard"] = <<1, 0>>
  /\ last.map.coords["shed"] = <<2, 0>>
  /\ "tower" \in DOMAIN last.map.graph
  /\ "tower" \notin DOMAIN last.map.coords

\* --------------------------------------------------------------------- C27
\* The last tick defeated the last monster of the location of the fight:
\* its action brought a monster to hp <= 0 and no other monster of the
\* list the tick started with was left.
LastMonsterDefeated ==
  /\ LastDefeat
  /\ \A j \in 1..Len(last.monsters0) : HpAfterAction(j) <= 0
  /\ monsters[last.loc0] = <<>>

\* C27: the victory branch (lines 791-793) is taken only in a tick that
\* defeated the last monster of the location of the fight, and never in a
\* tick in which the player retreated.
C27_VictoryOnlyOnLastDefeat ==
  last.victory => (last.verb # "retreat" /\ LastMonsterDefeated)

\* What does hold: a victory of a tick other than a retreat is the defeat
\* of the last monster, and a retreat the player does not survive has no
\* victory.
C27_VictoryWithoutRetreat ==
  /\ (last.victory /\ last.verb # "retreat") => LastMonsterDefeated
  /\ (last.verb = "retreat" /\ ~IsAlive(last.hp1)) => ~last.victory

C27_VictoryWithoutRetreatWitness ==
  /\ last.victory /\ last.verb = "attack"
  /\ Len(last.monsters0) = 1

\* A retreat the monsters left behind have killed the player in.
C27_DeadlyRetreatWitness ==
  last.verb = "retreat" /\ ~IsAlive(last.hp1) /\ monsters[last.loc0] # <<>>

\* --------------------------------------------------------------------- C28
\* The last tick resolved a go action of an explore-mode menu.
LastGo == TickJustEnded /\ last.mode = "explore" /\ last.verb = "go"

\* The conditional exits of the location of the last tick whose conditions
\* held when its menu was generated, in declaration order: the synthetic go
\* actions, the last entries of the menu, are generated for these.
LastOpenExits ==
  SelectSeq(LocationData[last.loc0].conditional_exits,
            LAMBDA c_exit : CheckConditions(c_exit.conditions, last.state0.inventory,
                                            last.state0.quests))

\* The go action of the last tick was a synthetic one.
LastGoSynthetic == last.index > Len(available_actions) - Len(LastOpenExits)

\* The destination the go action of the last tick was generated for: the
\* static exit of its direction, or the conditional exit it stands for.
LastGoGeneratedFor ==
  IF LastGoSynthetic
  THEN LastOpenExits[last.index - (Len(available_actions) - Len(LastOpenExits))].destination
  ELSE ExitDest(last.loc0, last.arg)

\* The destination the map drawn when the menu was shown records for the
\* direction from the location of the last tick, "none" if it has none.
LastMapDest ==
  LET edges == BuildAccessibleGraph(last.loc0, last.state0.inventory, last.state0.quests)[last.loc0]
  IN IF \E i \in 1..Len(edges) : edges[i][1] = last.arg
     THEN edges[CHOOSE i \in 1..Len(edges) : edges[i][1] = last.arg][2]
     ELSE "none"

\* C28: selecting a go action of an explore menu, static or synthetic,
\* moves the player to the destination the action was generated for, and
\* that is the destination of the map's accessible graph for the direction.
C28_GoActionDestination ==
  LastGo =>
    /\ current_location = LastGoGeneratedFor
    /\ LastMapDest = LastGoGeneratedFor

\* An open conditional exit of the location of the last tick has the
\* direction of one of its static exits.
LastExitShadowed ==
  \E k \in 1..Len(LastOpenExits) : ExitDest(last.loc0, LastOpenExits[k].direction) # "none"

\* What does hold: the same where no open conditional exit has the
\* direction of a static exit of the location.
C28_WithoutShadowedExit ==
  (LastGo /\ ~LastExitShadowed) =>
    /\ current_location = LastGoGeneratedFor
    /\ LastMapDest = LastGoGeneratedFor

\* A synthetic go action has moved the player through a conditional exit.
C28_WithoutShadowedExitWitness ==
  /\ LastGo /\ ~LastExitShadowed /\ LastGoSynthetic
  /\ world = "gate_world" /\ last.loc0 = "hall" /\ current_location = "cellar"

\* --------------------------------------------------------------------- C29
\* The verbs the combat branch has no case for.
ExploreOnlyVerbs == {"go", "get", "talk", "look", "inventory", "map"}

\* C29: a combat tick leaves the player in another location only if it
\* was a retreat the player survived; a go, get, talk, look, inventory or
\* map command resolved in combat changes no player or world state, leaves
\* the mode combat and takes no turn.
C29_CombatKeepsLocation ==
  last.mode = "combat" =>
    /\ current_location # last.loc0 => (last.verb = "retreat" /\ IsAlive(last.hp1))
    /\ last.verb \in ExploreOnlyVerbs => (SameAsTickStart /\ ~last.turn)

\* A synthetic go action for an open conditional exit, selected in combat.
C29_Witness ==
  /\ TickJustEnded
  /\ last.mode = "combat" /\ last.verb = "go"
  /\ world = "gate_world" /\ last.loc0 = "yard"
  /\ MoveDest(last.state0, last.arg) = "tower"
  /\ current_location = "yard"

\* A get action of the always bucket for an item on the ground, selected in
\* combat.
C29_WitnessGet ==
  /\ TickJustEnded
  /\ last.mode = "combat" /\ last.verb = "get"
  /\ FirstIndex(items[current_location], last.arg) # 0

\* A survived retreat that moved the player.
C29_WitnessRetreat ==
  /\ last.mode = "combat" /\ last.verb = "retreat"
  /\ current_location # last.loc0

\* --------------------------------------------------------------------- C30
\* The player waits for input in a fight, in a location that has no
\* spawns_on_defeat entries, with an attack_power of at least 1.
FightIn ==
  /\ pc = "input" /\ game_mode = "combat"
  /\ AttackPower >= 1
  /\ DOMAIN LocationData[current_location].spawns_on_defeat = {}

\* A fight is over: the last tick was a combat tick that left no monster in
\* its location and the mode explore, or the player's hp is 0 or less.
FightOver ==
  \/ /\ last.mode = "combat"
     /\ monsters[last.loc0] = <<>>
     /\ game_mode = "explore"
  \/ hp <= 0

\* C30: with an attack_power of at least 1, in a location without
\* spawns_on_defeat entries, a fight in which the player attacks a present
\* monster in every tick ends: the location's monster list becomes empty
\* and the mode explore, or the player's hp falls to 0 or less.  (The
\* player of SpecFight cannot leave the location of a fight, so the fight
\* that is over is the one that was going on.)
C30_CombatEnds == FightIn ~> FightOver

\* A fight won in its second tick or later: the monster defeated last had
\* been hit before, or was not the first of the fight.
C30_Witness ==
  /\ last.mode = "combat" /\ last.verb = "attack" /\ last.victory
  /\ DOMAIN LocationData[last.loc0].spawns_on_defeat = {}
  /\ game_mode = "explore" /\ monsters[last.loc0] = <<>>
  /\ hp < StartHp

\* A fight lost: the enemy turn after an attack has killed the player.
C30_WitnessLost ==
  /\ last.mode = "combat" /\ last.verb = "attack" /\ ~last.victory
  /\ DOMAIN LocationData[last.loc0].spawns_on_defeat = {}
  /\ hp <= 0 /\ monsters[last.loc0] # <<>>
====
